---- MODULE Spec2Model ----
(***************************************************************************)
(* A model of volatile-membench's measurement core.                        *)
(*                                                                         *)
(*   Spec        the four CPU kernels of src/cpu/latency.c and             *)
(*               src/cpu/bandwidth.c, called one after another with        *)
(*               arbitrary arguments, statement group by statement group.  *)
(*   SpecDetect  one call of membench_cpu_detect_cache of                  *)
(*               src/cpu/cache_detect.c: the sweep over the buffer sizes   *)
(*               and the capacity inference on what it measured.           *)
(*   SpecInfer   detect_boundaries on its own, on a family of latency      *)
(*               curves, step by step.                                     *)
(*                                                                         *)
(* Numbers are the program's own, except where a definition says it is a   *)
(* bound of the model.                                                     *)
(***************************************************************************)
EXTENDS Integers, Sequences, FiniteSets, TLC

(***************************************************************************)
(* Bounds of the model.                                                    *)
(***************************************************************************)
\* the largest chase the caller asks for, in cache lines
MaxNodes == 4
\* the largest iteration count the caller passes
MaxIter == 2
\* the C libraries considered: each seeds its generator differently
MaxLibc == 3
\* the largest timer difference (end - start), in ticks
MaxElapsed == 1
\* the doublings of the buffer size the sweep covers
MaxOctaves == 6
\* the most samples of one sweep whose measurement fails
MaxFailures == 1

(***************************************************************************)
(* Program constants.                                                      *)
(***************************************************************************)
CACHE_LINE_BYTES_DEFAULT == 64
\* sizeof(void *) and sizeof(uint64_t) on the 64-bit targets
PTR_BYTES == 8
WORD_BYTES == 8
\* the argument of srand() in both latency kernels
SEED == 42
\* the null pointer a zero-filled word holds; node addresses are 0..N-1
NULLP == 0 - 1
\* "no value returned yet": not a value any kernel returns
NoRet == 0 - 128

VARIABLES
    pc,            \* where the running kernel call stands; "idle" between calls
    kernel,        \* which of the four kernels is running
    buffer_size,   \* argument
    iterations,    \* argument
    result,        \* the caller's result structure, or a null pointer
    node_count,    \* latency kernels: number of chase nodes
    count,         \* bandwidth kernels: number of 64-bit words
    alloc_bytes,   \* the byte size passed to membench_alloc
    buf,           \* latency kernels: word 0 (next) of every node of the buffer
    p,             \* the chase pointer
    ret,           \* the value returned to the caller
    cause,         \* why the call failed: "none", "invalid", "oom"
    rng,           \* the C library's rand() state
    libc,          \* which C library the build links (fixed in a run)
    allocs,        \* byte sizes membench_alloc handed out during this call
    frees,         \* byte sizes passed to membench_free during this call
    alloc_calls,   \* calls of membench_alloc during this call
    idx_failed,    \* the builder's malloc of the index array returned NULL
    builds,        \* history: for every N built so far, the next-edges every
                   \* build of N nodes produced
    rebuilt,       \* history: some N > 2 has been built more than once
    scratch,       \* word 1 of every node of a latency kernel's buffer
    lat_rets,      \* history: for every failure cause, the values the latency
                   \* kernels returned
    \* detect_boundaries
    ipc,           \* where the inferrer stands; "idle" when it is not running
    num,           \* n, the number of samples
    sizes,         \* sizes[0..n), as log positions (see the inferrer below)
    latencies,     \* latencies[0..n)
    info,          \* the caller's membench_cache_info_t
    log_lat,       \* step 1
    smooth,        \* step 2, doubled
    deriv,         \* step 3
    sderiv,        \* step 4
    peaks,         \* peak_pos / peak_mag of steps 5 to 7
    trans,         \* step 8: what each transition computed, in order
    \* membench_cpu_detect_cache
    dpc,           \* where the detect_cache call stands; "idle" outside a call
    info_arg,      \* the argument: TRUE for a structure, FALSE for NULL
    machine,       \* the latency the machine has in each octave of sizes
    sweep_i,       \* the sweep's loop index i
    dret,          \* the value detect_cache returned
    sizes_held,    \* the sizes array is allocated
    lats_held,     \* the latencies array is allocated
    pinned,        \* the thread is pinned to core 0
    outcomes,      \* history: what the kernel did at each sample so far
    \* generate_sizes
    gpc,           \* where the generate_sizes call stands; "idle" outside one
    gs_step,       \* sz, as the number of times it was multiplied by factor
    gs_err,        \* history: for every whole octave sz has reached, the sign
                   \* of its accumulated rounding error
    gs_count,      \* count
    gs_i,          \* the fill loop's index i
    gs_prev,       \* prev
    out_sizes,     \* (*out_sizes)[0..actual)
    gs_ret,        \* the value generate_sizes returned
    \* the thread's affinity / QoS class around the sweep
    host,          \* the build's platform, and which system calls work there
    affinity,      \* the thread's affinity mask (its QoS class on macOS)
    entry_affinity,\* history: what it was when detect_cache was entered
    old_affinity,  \* old_affinity / old_mask
    \* the kernels' timed region
    timeline,      \* history: the fences, timestamp reads and accesses the
                   \* timed region of this call executed, in program order
    \* timer.c
    tpc,           \* "uninit", "ready" after a successful init, "failed"
    clock,         \* the operating system's monotonic clock
    os_timebase,   \* what the system reports: the counter's frequency on
                   \* Windows, numer and denom on macOS
    g_freq,        \* g_freq.QuadPart
    g_timebase,    \* g_timebase
    g_timer_ready, \* g_timer_ready
    timer_ret,     \* the value membench_timer_init returned
    t1,            \* the timestamp before the last one
    t2,            \* the last timestamp membench_timer_ns returned
    reads,         \* how many timestamps were read, up to two
    ticked,        \* the clock advanced since t2 was read
    advanced,      \* the clock advanced between the reads of t1 and t2
    resolutions,   \* history: the values membench_timer_resolution_ns
                   \* returned
    \* the iteration planners auto_iter and auto_iterations
    ppc,           \* "call" before the planner ran, "done" after
    plan_size,     \* buffer_size, in units of plan_unit bytes
    plan_unit,     \* 1 or 1024
    plan_kind,     \* "latency", "bandwidth" (auto_iter) or "sweep"
                   \* (auto_iterations)
    plan_line,     \* what get_cache_line_size_main / _cd returns
    plan_iters,    \* the value the planner returned
    \* main
    mpc,           \* where main stands; "idle" outside a run
    opts,          \* the options the command line (or the menu) yielded
    total_ram,     \* si.total_ram, in KiB; 0 when it is not known
    init_rc,       \* what membench_timer_init returned
    calls,         \* history: the failure report, the warmup and the kernel
                   \* calls main has made, in order
    loop_i,        \* the index i of the loop over the default sizes
    rc,            \* rc of run_cpu and main
    exit_code,     \* the value main returned
    \* the allocator of src/core/alloc.c and one buffer of its caller
    hpc,           \* "idle", "call", "live" (the caller holds the result),
                   \* "freed"
    heap_os,       \* "windows" (VirtualAlloc) or "posix" (mmap)
    req_size,      \* the size argument
    os_ok,         \* whether the platform call succeeded; TRUE when none
                   \* was made
    heap_ptr,      \* what membench_alloc returned
    heap,          \* the bytes of the mapping, offsets 1..req_size
    written,       \* history: the byte the caller last stored at each
                   \* offset, NoWrite where it stored none
    os_maps,       \* the mappings the platform holds for this caller
    \* steps 6 and 7 of detect_boundaries on a list of peaks
    qpc,           \* "idle", "merge", "select", "done"
    q_detected,    \* peak_pos / peak_mag as step 5 left them
    q_i,           \* the outer index i of the merge loops, from 1
    q_prev,        \* history: the arrays before the latest pass of the
                   \* outer merge loop
    q_marked,      \* the arrays with the dead marks of the merge loops
    q_merged,      \* the arrays after the compaction
    q_top          \* the entries 0..top-1 after step 7

kvars == <<pc, kernel, buffer_size, iterations, result, node_count, count,
           alloc_bytes, buf, p, ret, cause, rng, libc, allocs, frees,
           alloc_calls, idx_failed, builds, rebuilt, lat_rets, scratch>>

ivars == <<ipc, num, sizes, latencies, info, log_lat, smooth, deriv, sderiv,
           peaks, trans>>

dvars == <<dpc, info_arg, machine, sweep_i, dret, sizes_held, lats_held,
           pinned, outcomes>>

gvars == <<gpc, gs_step, gs_err, gs_count, gs_i, gs_prev, out_sizes, gs_ret>>

\* the components outside the kernels, the inferrer and detect_cache
avars == <<host, affinity, entry_affinity, old_affinity>>

fvars == <<timeline>>

tvars == <<tpc, clock, os_timebase, g_freq, g_timebase, g_timer_ready,
           timer_ret, t1, t2, reads, ticked, advanced, resolutions>>

pvars == <<ppc, plan_size, plan_unit, plan_kind, plan_line, plan_iters>>

mvars == <<mpc, opts, total_ram, init_rc, calls, loop_i, rc, exit_code>>

hvars == <<hpc, heap_os, req_size, os_ok, heap_ptr, heap, written, os_maps>>

qvars == <<qpc, q_detected, q_i, q_prev, q_marked, q_merged, q_top>>

xvars ==
    <<gvars, avars, fvars, tvars, pvars, mvars, hvars, qvars>>

vars == <<kvars, ivars, dvars, xvars>>

\* the caller's structure before the call: nothing in it has a defined value
Uninit == 0 - 64
UnsetInfo == [l1_size_bytes |-> Uninit, l2_size_bytes |-> Uninit,
              l3_size_bytes |-> Uninit, num_samples |-> Uninit,
              sample_sizes |-> FALSE, sample_latencies |-> FALSE]

IIdle ==
    /\ ipc = "idle"
    /\ num = 0
    /\ sizes = << >>
    /\ latencies = << >>
    /\ info = UnsetInfo
    /\ log_lat = << >>
    /\ smooth = << >>
    /\ deriv = << >>
    /\ sderiv = << >>
    /\ peaks = << >>
    /\ trans = << >>

DIdle ==
    /\ dpc = "idle"
    /\ info_arg = TRUE
    /\ machine = << >>
    /\ sweep_i = 0
    /\ dret = NoRet
    /\ sizes_held = FALSE
    /\ lats_held = FALSE
    /\ pinned = FALSE
    /\ outcomes = << >>

GIdle ==
    /\ gpc = "idle"
    /\ gs_step = 0
    /\ gs_err = << >>
    /\ gs_count = 0
    /\ gs_i = 0
    /\ gs_prev = 0
    /\ out_sizes = << >>
    /\ gs_ret = NoRet

\* affinity masks over two cores, as bit sets; 0 is the empty mask
CORE0_MASK == 1
AffinityMasks == {1, 2, 3}
\* qos_class_t values of <sys/qos.h>
QOS_CLASS_USER_INTERACTIVE == 33
QOS_CLASS_DEFAULT == 21
QOS_CLASS_UTILITY == 17
QosClasses == {QOS_CLASS_USER_INTERACTIVE, QOS_CLASS_DEFAULT, QOS_CLASS_UTILITY}

\* a Linux host where the affinity calls work, a thread free to run anywhere
AIdle ==
    /\ host = [platform |-> "linux", pin_works |-> TRUE, save_works |-> TRUE]
    /\ affinity = 3
    /\ entry_affinity = 3
    /\ old_affinity = Uninit

FIdle == timeline = << >>

(***************************************************************************)
(* uint64_t, at its real width: four 16-bit limbs, least significant       *)
(* first.  Arithmetic is modulo 2^64, as in C.                             *)
(***************************************************************************)
LIMB == 65536
U64(n) == <<n % LIMB, (n \div LIMB) % LIMB, 0, 0>>
U64_MAX == <<LIMB - 1, LIMB - 1, LIMB - 1, LIMB - 1>>

\* x * m for 0 <= m < 2^15
MulSmall(x, m) ==
    LET p0 == x[1] * m
        p1 == x[2] * m + (p0 \div LIMB)
        p2 == x[3] * m + (p1 \div LIMB)
        p3 == x[4] * m + (p2 \div LIMB)
    IN  <<p0 % LIMB, p1 % LIMB, p2 % LIMB, p3 % LIMB>>

\* x / d for 0 < d < 2^15
DivSmall(x, d) ==
    LET r3 == x[4]
        r2 == (r3 % d) * LIMB + x[3]
        r1 == (r2 % d) * LIMB + x[2]
        r0 == (r1 % d) * LIMB + x[1]
    IN  <<r0 \div d, r1 \div d, r2 \div d, r3 \div d>>

AddU64(x, y) ==
    LET s0 == x[1] + y[1]
        s1 == x[2] + y[2] + (s0 \div LIMB)
        s2 == x[3] + y[3] + (s1 \div LIMB)
        s3 == x[4] + y[4] + (s2 \div LIMB)
    IN  <<s0 % LIMB, s1 % LIMB, s2 % LIMB, s3 % LIMB>>

LessU64(x, y) ==
    \E k \in 1..4 : x[k] < y[k] /\ \A j \in (k + 1)..4 : x[j] = y[j]

\* the timer before membench_timer_init: the statics are zero
NoTime == [sec |-> U64(0), nsec |-> 0, ticks |-> U64(0)]
NoTimebase == [freq |-> 0, numer |-> 0, denom |-> 0]
TIdle ==
    /\ tpc = "uninit"
    /\ clock = NoTime
    /\ os_timebase = NoTimebase
    /\ g_freq = 0
    /\ g_timebase = [numer |-> 0, denom |-> 0]
    /\ g_timer_ready = 0
    /\ timer_ret = NoRet
    /\ t1 = U64(0)
    /\ t2 = U64(0)
    /\ reads = 0
    /\ ticked = FALSE
    /\ advanced = FALSE
    /\ resolutions = {}

PIdle ==
    /\ ppc = "idle"
    /\ plan_size = 0
    /\ plan_unit = 1
    /\ plan_kind = "latency"
    /\ plan_line = CACHE_LINE_BYTES_DEFAULT
    /\ plan_iters = 0

NoOpts == [target |-> "cpu", tests |-> {}, buffer_size |-> 0, iterations |-> 0]
MIdle ==
    /\ mpc = "idle"
    /\ opts = NoOpts
    /\ total_ram = 0
    /\ init_rc = NoRet
    /\ calls = << >>
    /\ loop_i = 0
    /\ rc = 0
    /\ exit_code = NoRet

\* a store that has not happened
NoWrite == 0 - 1
HIdle ==
    /\ hpc = "idle"
    /\ heap_os = "posix"
    /\ req_size = 0
    /\ os_ok = TRUE
    /\ heap_ptr = "null"
    /\ heap = << >>
    /\ written = << >>
    /\ os_maps = 0

QIdle ==
    /\ qpc = "idle"
    /\ q_detected = << >>
    /\ q_i = 0
    /\ q_prev = << >>
    /\ q_marked = << >>
    /\ q_merged = << >>
    /\ q_top = << >>

XIdle ==
    GIdle /\ AIdle /\ FIdle /\ TIdle /\ PIdle /\ MIdle /\ HIdle /\ QIdle


Kernels == {"read_latency", "write_latency", "read_bandwidth", "write_bandwidth"}
IsLatency(k) == k \in {"read_latency", "write_latency"}

\* sizes a caller may pass: zero, below a word, below a line, not a multiple of
\* a line, and 1..MaxNodes lines
BufferSizes ==
    {0, WORD_BYTES - 1, WORD_BYTES, CACHE_LINE_BYTES_DEFAULT - 1,
     CACHE_LINE_BYTES_DEFAULT + WORD_BYTES + 1}
    \cup {CACHE_LINE_BYTES_DEFAULT * k : k \in 1..MaxNodes}

\* the caller's result structure before the call: a null pointer, or a
\* structure no field of which has been written
NullResult  == [ptr |-> FALSE, written |-> FALSE, buffer_size |-> 0,
                accesses |-> 0, elapsed |-> 0]
FreshResult == [ptr |-> TRUE, written |-> FALSE, buffer_size |-> 0,
                accesses |-> 0, elapsed |-> 0]

(***************************************************************************)
(* The C library's generator.  rand() is a deterministic function of the   *)
(* state srand() set and of the number of calls since; which function is   *)
(* the library's choice.  A 16-bit linear congruential generator stands    *)
(* for it, seeded differently by each library.                             *)
(***************************************************************************)
Srand(seed, lib) == (seed * (lib + 1) + lib) % 65537
RandNext(s) == (s * 75 + 74) % 65537
RandValue(s) == s % 32768

membench_get_cache_line_size == CACHE_LINE_BYTES_DEFAULT

(***************************************************************************)
(* build_pointer_chase_cl: Fisher-Yates from i = node_count-1 down to 1,   *)
(* then one edge per consecutive pair of idx and the closing edge.         *)
(***************************************************************************)
RECURSIVE FisherYates(_, _, _)
FisherYates(idx, i, s) ==
    IF i = 0 THEN [idx |-> idx, rng |-> s]
    ELSE LET s1 == RandNext(s)
             j  == RandValue(s1) % (i + 1)
         IN  FisherYates([idx EXCEPT ![i] = idx[j], ![j] = idx[i]], i - 1, s1)

\* the edges written for the shuffled idx: buf[idx[i]] = &buf[idx[i+1]], and
\* buf[idx[n-1]] = &buf[idx[0]]
ChaseEdges(b, idx, n) ==
    [k \in DOMAIN b |->
        IF \E i \in 0..(n - 1) : idx[i] = k
        THEN LET i == CHOOSE i \in 0..(n - 1) : idx[i] = k
             IN  IF i < n - 1 THEN idx[i + 1] ELSE idx[0]
        ELSE b[k]]

\* the builder on buffer b with generator state s; idx_ok is whether its
\* malloc of idx succeeded.  Returns the buffer and the generator state.
build_pointer_chase_cl(b, n, s, idx_ok) ==
    IF ~idx_ok THEN [buf |-> b, rng |-> s]
    ELSE LET id == [i \in 0..(n - 1) |-> i]
             sh == FisherYates(id, n - 1, s)
         IN  [buf |-> ChaseEdges(b, sh.idx, n), rng |-> sh.rng]

\* chase_load: the pointer stored in word 0 of the node q points to
chase_load(b, q) == b[q]

\* q after `hops` dependent loads; NULLP once a load went through a null
\* pointer or left the buffer (the load faults)
RECURSIVE Follow(_, _, _)
Follow(b, q, hops) ==
    IF hops = 0 THEN q
    ELSE IF q \notin DOMAIN b THEN NULLP
    ELSE Follow(b, chase_load(b, q), hops - 1)

\* the nodes a traversal of `hops` loads from node 0 stands on
Visited(b, hops) == {Follow(b, 0, k) : k \in 0..(hops - 1)}

\* a traversal of `hops` loads dereferences a pointer outside the buffer
Faults(b, hops) == \E k \in 0..(hops - 1) : Follow(b, 0, k) \notin DOMAIN b

\* latency.c lines 176-177: word[0] of a node is its next pointer, word[1]
\* the scratch word the write kernel stores to
SCRATCH_WORD_Next == 1 - 1

SCRATCH_WORD == 1

\* a store of v to word w of node q of the buffer (b: word 0 of every node,
\* sc: word 1)
StoreWord(b, sc, q, w, v) ==
    IF w = 0 THEN [buf |-> [b EXCEPT ![q] = v], scratch |-> sc]
    ELSE [buf |-> b, scratch |-> [sc EXCEPT ![q] = v]]

\* latency.c line 201, p[1] ^ 1, and line 217, iter + i, for hop number k
\* (from 0) of passes of n hops
ScratchValue(sc, q, k, timed, n) ==
    IF timed THEN (k \div n) + (k % n)
    ELSE IF sc[q] % 2 = 0 THEN sc[q] + 1 ELSE sc[q] - 1

\* latency.c lines 200-203, 215-220: `hops` hops of the write kernel from
\* node q, each the store to the scratch word and then the load of the next
\* pointer; a hop from outside the buffer faults
RECURSIVE WriteChase(_, _, _, _, _, _, _)
WriteChase(b, sc, q, k, hops, timed, n) ==
    IF k = hops THEN [buf |-> b, scratch |-> sc, p |-> q, fault |-> FALSE]
    ELSE IF q \notin DOMAIN b
    THEN [buf |-> b, scratch |-> sc, p |-> NULLP, fault |-> TRUE]
    ELSE LET m == StoreWord(b, sc, q, SCRATCH_WORD,
                            ScratchValue(sc, q, k, timed, n))
         IN  WriteChase(m.buf, m.scratch, chase_load(m.buf, q), k + 1, hops,
                        timed, n)

\* the traversal loops of the two latency kernels, from node 0
Traverse(k, b, sc, hops, timed, n) ==
    IF k = "write_latency" THEN WriteChase(b, sc, 0, 0, hops, timed, n)
    ELSE [buf |-> b, scratch |-> sc, p |-> Follow(b, 0, hops),
          fault |-> Faults(b, hops)]

(***************************************************************************)
(* The kernels, one action per statement group.                            *)
(***************************************************************************)
KInit ==
    /\ pc = "idle"
    /\ kernel = "read_latency"
    /\ buffer_size = 0
    /\ iterations = 0
    /\ result = NullResult
    /\ node_count = 0
    /\ count = 0
    /\ alloc_bytes = 0
    /\ buf = << >>
    /\ p = NULLP
    /\ ret = NoRet
    /\ cause = "none"
    /\ libc \in 0..MaxLibc
    /\ rng = Srand(1, libc)
    /\ allocs = << >>
    /\ frees = << >>
    /\ alloc_calls = 0
    /\ idx_failed = FALSE
    /\ builds = [n \in {} |-> {}]
    /\ rebuilt = FALSE
    /\ lat_rets = [c \in {"invalid", "oom"} |-> {}]
    /\ scratch = << >>

\* the driver calls a kernel
Call ==
    /\ pc = "idle"
    /\ \E k \in Kernels, sz \in BufferSizes, it \in 0..MaxIter, r \in BOOLEAN :
        /\ kernel' = k
        /\ buffer_size' = sz
        /\ iterations' = it
        /\ result' = IF r THEN FreshResult ELSE NullResult
    /\ pc' = "check"
    /\ node_count' = 0
    /\ count' = 0
    /\ alloc_bytes' = 0
    /\ buf' = << >>
    /\ p' = NULLP
    /\ ret' = NoRet
    /\ cause' = "none"
    /\ allocs' = << >>
    /\ frees' = << >>
    /\ alloc_calls' = 0
    /\ idx_failed' = FALSE
    /\ timeline' = << >>
    /\ UNCHANGED <<rng, libc, builds, rebuilt, lat_rets, scratch>>
    /\ UNCHANGED <<ivars, dvars, gvars, avars, tvars, pvars, mvars, hvars, qvars>>

\* the kernel returns v without having allocated
Fail(v, why) ==
    /\ ret' = v
    /\ cause' = why
    /\ pc' = "done"

\* the arguments a latency kernel rejects
LatencyRejects(res, sz) == ~res.ptr \/ sz < membench_get_cache_line_size

\* the count == 0 test left out
BandwidthRejects_NoCountCheck(res, sz) == ~res.ptr \/ sz = 0

\* the arguments a bandwidth kernel rejects
BandwidthRejects(res, sz) == ~res.ptr \/ sz = 0 \/ sz \div WORD_BYTES = 0

\* latency.c 108-118, 180-188
CheckLatency ==
    /\ pc = "check"
    /\ IsLatency(kernel)
    /\ IF LatencyRejects(result, buffer_size)
       THEN /\ Fail(0 - 1, "invalid")
            /\ UNCHANGED <<node_count, alloc_bytes>>
       ELSE LET cl == membench_get_cache_line_size
                nc == IF buffer_size \div cl < 2 THEN 2 ELSE buffer_size \div cl
            IN  /\ node_count' = nc
                /\ alloc_bytes' = nc * (cl \div PTR_BYTES) * PTR_BYTES
                /\ pc' = "alloc"
                /\ UNCHANGED <<ret, cause>>
    /\ UNCHANGED <<kernel, buffer_size, iterations, result, count, buf, p, rng,
                   libc, allocs, frees, alloc_calls, idx_failed, builds, rebuilt, lat_rets, scratch>>
    /\ UNCHANGED <<ivars, dvars, xvars>>

\* bandwidth.c 19-23, 72-75
CheckBandwidth ==
    /\ pc = "check"
    /\ ~IsLatency(kernel)
    /\ IF BandwidthRejects(result, buffer_size)
       THEN /\ Fail(0 - 1, "invalid")
            /\ UNCHANGED <<count, alloc_bytes>>
       ELSE /\ count' = buffer_size \div WORD_BYTES
            /\ alloc_bytes' = (buffer_size \div WORD_BYTES) * WORD_BYTES
            /\ pc' = "alloc"
            /\ UNCHANGED <<ret, cause>>
    /\ UNCHANGED <<kernel, buffer_size, iterations, result, node_count, buf, p,
                   rng, libc, allocs, frees, alloc_calls, idx_failed, builds, rebuilt, lat_rets, scratch>>
    /\ UNCHANGED <<ivars, dvars, xvars>>

\* membench_alloc(size): NULL for size 0 and when the mapping fails
membench_alloc(size, mapped) == size # 0 /\ mapped

\* a second error code for allocation failure
AllocFailureCode_Distinct == 0 - 2

\* the value a kernel returns when membench_alloc returned NULL
AllocFailureCode == 0 - 1

\* latency.c 119-123, 189-193; bandwidth.c 25-26, 77-78
Alloc ==
    /\ pc = "alloc"
    /\ alloc_calls' = alloc_calls + 1
    /\ \E mapped \in BOOLEAN :
        IF membench_alloc(alloc_bytes, mapped)
        THEN /\ allocs' = Append(allocs, alloc_bytes)
             /\ buf' = IF IsLatency(kernel)
                       THEN [k \in 0..(node_count - 1) |-> NULLP]
                       ELSE << >>
             /\ scratch' = IF IsLatency(kernel)
                           THEN [k \in 0..(node_count - 1) |-> 0]
                           ELSE << >>
             /\ pc' = "setup"
             /\ UNCHANGED <<ret, cause>>
        ELSE /\ Fail(AllocFailureCode, "oom")
             /\ UNCHANGED <<allocs, buf, scratch>>
    /\ UNCHANGED <<kernel, buffer_size, iterations, result, node_count, count,
                   alloc_bytes, p, rng, libc, frees, idx_failed, builds,
                   rebuilt, lat_rets>>
    /\ UNCHANGED <<ivars, dvars, xvars>>

\* the history `h` after a build of n nodes produced the edges e
Record(h, n, e) ==
    [m \in DOMAIN h \cup {n} |->
        IF m # n THEN h[m]
        ELSE IF n \in DOMAIN h THEN h[n] \cup {e} ELSE {e}]

\* srand(42) left out: the builder continues the generator where it stands
SeedBeforeBuild_NoSrand(s, lib) == s

\* the generator state the builder starts from
SeedBeforeBuild(s, lib) == Srand(SEED, lib)

\* latency.c 124-125, 194-195: srand(42), then the builder
SetupLatency ==
    /\ pc = "setup"
    /\ IsLatency(kernel)
    /\ \E idx_ok \in BOOLEAN :
        LET b == build_pointer_chase_cl(buf, node_count,
                                        SeedBeforeBuild(rng, libc), idx_ok)
        IN  /\ buf' = b.buf
            /\ rng' = b.rng
            /\ idx_failed' = ~idx_ok
            /\ builds' = IF idx_ok THEN Record(builds, node_count, b.buf)
                         ELSE builds
            /\ rebuilt' = (rebuilt \/ (idx_ok /\ node_count > 2
                                           /\ node_count \in DOMAIN builds))
    /\ pc' = "warmup"
    /\ UNCHANGED <<kernel, buffer_size, iterations, result, node_count, count,
                   alloc_bytes, p, ret, cause, libc, allocs, frees, alloc_calls,
                   lat_rets, scratch>>
    /\ UNCHANGED <<ivars, dvars, xvars>>

\* bandwidth.c 28-31 (read: fill with i); the write kernel has no setup
SetupBandwidth ==
    /\ pc = "setup"
    /\ ~IsLatency(kernel)
    /\ pc' = "warmup"
    /\ UNCHANGED <<kernel, buffer_size, iterations, result, node_count, count,
                   alloc_bytes, buf, p, ret, cause, rng, libc, allocs, frees,
                   alloc_calls, idx_failed, builds, rebuilt, lat_rets, scratch>>
    /\ UNCHANGED <<ivars, dvars, xvars>>

\* latency.c 128-135, 198-205: one full traversal from node 0.  A load
\* through the null pointer of an unbuilt chase is undefined behaviour; page
\* 0 is unmapped on the supported systems, so the process faults.
WarmupLatency ==
    /\ pc = "warmup"
    /\ IsLatency(kernel)
    /\ LET r == Traverse(kernel, buf, scratch, node_count, FALSE, node_count)
       IN  IF r.fault
           THEN pc' = "fault" /\ p' = NULLP /\ UNCHANGED <<buf, scratch>>
           ELSE /\ pc' = "timed"
                /\ p' = r.p
                /\ buf' = r.buf
                /\ scratch' = r.scratch
    /\ UNCHANGED <<kernel, buffer_size, iterations, result, node_count, count,
                   alloc_bytes, ret, cause, rng, libc, allocs, frees,
                   alloc_calls, idx_failed, builds, rebuilt, lat_rets>>
    /\ UNCHANGED <<ivars, dvars, xvars>>

\* bandwidth.c 34-40, 81-83
WarmupBandwidth ==
    /\ pc = "warmup"
    /\ ~IsLatency(kernel)
    /\ pc' = "timed"
    /\ UNCHANGED <<kernel, buffer_size, iterations, result, node_count, count,
                   alloc_bytes, buf, p, ret, cause, rng, libc, allocs, frees,
                   alloc_calls, idx_failed, builds, rebuilt, lat_rets, scratch>>
    /\ UNCHANGED <<ivars, dvars, xvars>>

\* latency.c 138-159, 208-231; bandwidth.c 42-62, 85-105: the timed passes
\* and the stores into *result
\* latency.c lines 141-151 and 211-224, bandwidth.c lines 45-55 and 87-95:
\* the timed region of kernel k in program order: "fence" is a call of
\* memory_fence(), "start" and "end" are the two calls of membench_timer_ns()
\* and "loop" is the loop nest between them, which makes all timed accesses
TimedEvents(k) ==
    IF IsLatency(k)
    THEN <<"fence", "start", "loop", "fence", "end">>
    ELSE <<"start", "loop", "end">>

Timed ==
    /\ pc = "timed"
    /\ timeline' = TimedEvents(kernel)
    /\ \E e \in 0..MaxElapsed :
        result' = [ptr |-> TRUE, written |-> TRUE, buffer_size |-> buffer_size,
                   accesses |-> IF IsLatency(kernel)
                                THEN iterations * node_count
                                ELSE iterations * count * WORD_BYTES,
                   elapsed |-> e]
    /\ IF IsLatency(kernel)
       THEN LET r == Traverse(kernel, buf, scratch, iterations * node_count,
                              TRUE, node_count)
            IN  p' = r.p /\ buf' = r.buf /\ scratch' = r.scratch
       ELSE UNCHANGED <<p, buf, scratch>>
    /\ pc' = "free"
    /\ UNCHANGED <<kernel, buffer_size, iterations, node_count, count,
                   alloc_bytes, ret, cause, rng, libc, allocs, frees,
                   alloc_calls, idx_failed, builds, rebuilt, lat_rets>>
    /\ UNCHANGED <<ivars, dvars, gvars, avars, tvars, pvars, mvars, hvars, qvars>>

\* the requested size passed instead of the allocated one
FreeSize_Requested(k, nc, c) == buffer_size

\* the byte size the kernel passes to membench_free
FreeSize(k, nc, c) ==
    IF IsLatency(k)
    THEN nc * (membench_get_cache_line_size \div PTR_BYTES) * PTR_BYTES
    ELSE c * WORD_BYTES

\* latency.c 161-162, 233-234; bandwidth.c 64-65, 107-108
FreeAndReturn ==
    /\ pc = "free"
    /\ frees' = Append(frees, FreeSize(kernel, node_count, count))
    /\ buf' = << >>
    /\ scratch' = << >>
    /\ ret' = 0
    /\ pc' = "done"
    /\ UNCHANGED <<kernel, buffer_size, iterations, result, node_count, count,
                   alloc_bytes, p, cause, rng, libc, allocs, alloc_calls,
                   idx_failed, builds, rebuilt, lat_rets>>
    /\ UNCHANGED <<ivars, dvars, xvars>>

\* the caller takes the return value; the call's frame is gone
Return ==
    /\ pc = "done"
    /\ pc' = "idle"
    /\ lat_rets' = IF IsLatency(kernel) /\ cause \in DOMAIN lat_rets
                   THEN [lat_rets EXCEPT ![cause] = @ \cup {ret}]
                   ELSE lat_rets
    /\ kernel' = "read_latency"
    /\ buffer_size' = 0
    /\ iterations' = 0
    /\ result' = NullResult
    /\ node_count' = 0
    /\ count' = 0
    /\ alloc_bytes' = 0
    /\ buf' = << >>
    /\ p' = NULLP
    /\ ret' = NoRet
    /\ cause' = "none"
    /\ allocs' = << >>
    /\ frees' = << >>
    /\ alloc_calls' = 0
    /\ idx_failed' = FALSE
    /\ scratch' = << >>
    /\ UNCHANGED <<rng, libc, builds, rebuilt>>
    /\ UNCHANGED <<ivars, dvars, xvars>>

Init == KInit /\ IIdle /\ DIdle /\ XIdle

Next ==
    \/ Call
    \/ CheckLatency
    \/ CheckBandwidth
    \/ Alloc
    \/ SetupLatency
    \/ SetupBandwidth
    \/ WarmupLatency
    \/ WarmupBandwidth
    \/ Timed
    \/ FreeAndReturn
    \/ Return

Spec == Init /\ [][Next]_vars

TypeOK ==
    /\ pc \in {"idle", "check", "alloc", "setup", "warmup", "timed", "free",
               "done", "fault"}
    /\ kernel \in Kernels
    /\ ret \in {NoRet, 0, 0 - 1}


(***************************************************************************)
(* The cache-capacity inferrer, detect_boundaries of src/cpu/cache_detect.c *)
(*                                                                         *)
(* Arrays are functions on 0..n-1.  Sizes are given by their base-2        *)
(* logarithm in units of 1/STEPS_PER_OCTAVE octave (lsz), latencies are    *)
(* powers of two or the failure sentinel -1, so that every logarithm the   *)
(* code takes is an integer and every comparison it makes is decided       *)
(* exactly: a derivative is a ratio of integers <<num, den>>, den > 0, and *)
(* the threshold sqrt(lo_med * up_med) is kept as its square.              *)
(* d(log lat)/d(log size) does not depend on the base of the logarithm.    *)
(*                                                                         *)
(* The arithmetic is that of the reals.  generate_sizes truncates each     *)
(* size to a whole byte count (1217 for 2^10.25), so in the program two    *)
(* derivative values that are equal here can differ in their fourth digit  *)
(* and a peak can sit one sample later than here; on the 1093 curves of    *)
(* SpecInfer the compiled function returns the capacities computed here,   *)
(* or (175 curves) the size one sample further.                            *)
(***************************************************************************)
STEPS_PER_OCTAVE == 4
MAX_PEAKS == 20
\* the plateau arrays lo_vals[40], up_vals[40]
MAX_PLATEAU == 40
\* the merge distance of step 6, in sample indices
MERGE_DISTANCE == 5
\* the radius of the median filter of step 2, the half-width of the derivative
\* window of step 3, the radius of the median filter of step 4
SMOOTH_RADIUS == 3
DERIV_WINDOW == 2
SDERIV_RADIUS == 2
\* detect_boundaries does nothing below this many samples
MIN_SAMPLES == 10
\* MIN_PEAK_HEIGHT 0.10, as a ratio
MIN_PEAK_HEIGHT == <<1, 10>>
\* the sweep records -1.0 for a failed sample
SENTINEL == 0 - 1

\* ratios <<num, den>> with den > 0
RLess(a, b) == a[1] * b[2] < b[1] * a[2]
RLeq(a, b)  == a[1] * b[2] <= b[1] * a[2]
RMean(a, b) == <<a[1] * b[2] + b[1] * a[2], 2 * a[2] * b[2]>>

\* log(x) in base 2 for the latencies of the model, powers of two
Log2(x) == CHOOSE k \in 0..30 : 2^k = x

Min(a, b) == IF a < b THEN a ELSE b
Max(a, b) == IF a > b THEN a ELSE b

\* tmp[k] after qsort of the window arr[lo..hi] of integers (k from 0)
SortedAt(arr, lo, hi, k) ==
    CHOOSE v \in {arr[i] : i \in lo..hi} :
        /\ Cardinality({i \in lo..hi : arr[i] < v}) <= k
        /\ Cardinality({i \in lo..hi : arr[i] <= v}) > k

\* twice median_of(&arr[lo], hi - lo + 1) for an array of integers; when the
\* malloc of tmp fails the code returns arr[n / 2] of the unsorted window
median_of2(arr, lo, hi, tmp_ok) ==
    LET m == hi - lo + 1
    IN  IF ~tmp_ok THEN 2 * arr[lo + m \div 2]
        ELSE IF m % 2 = 1 THEN 2 * SortedAt(arr, lo, hi, m \div 2)
        ELSE SortedAt(arr, lo, hi, m \div 2 - 1) + SortedAt(arr, lo, hi, m \div 2)

\* the same for an array of ratios
RSortedAt(arr, lo, hi, k) ==
    CHOOSE v \in {arr[i] : i \in lo..hi} :
        /\ Cardinality({i \in lo..hi : RLess(arr[i], v)}) <= k
        /\ Cardinality({i \in lo..hi : RLeq(arr[i], v)}) > k

median_ofR(arr, lo, hi, tmp_ok) ==
    LET m == hi - lo + 1
    IN  IF ~tmp_ok THEN arr[lo + m \div 2]
        ELSE IF m % 2 = 1 THEN RSortedAt(arr, lo, hi, m \div 2)
        ELSE RMean(RSortedAt(arr, lo, hi, m \div 2 - 1),
                   RSortedAt(arr, lo, hi, m \div 2))

\* step 1: log_lat[i] = latencies[i] > 0 ? log(latencies[i]) : 0
LogLat(lat, n) ==
    [i \in 0..(n - 1) |-> IF lat[i] > 0 THEN Log2(lat[i]) ELSE 0]

\* the window [lo, hi] of radius r around i
WinLo(i, r) == IF i >= r THEN i - r ELSE 0
WinHi(i, r, n) == IF i + r < n THEN i + r ELSE n - 1

\* step 2: twice the radius-3 median of log_lat
Smooth2(ll, n, tmp_ok) ==
    [i \in 0..(n - 1) |->
        median_of2(ll, WinLo(i, SMOOTH_RADIUS), WinHi(i, SMOOTH_RADIUS, n),
                   tmp_ok)]

\* step 3: deriv[i] = (smooth[hi] - smooth[lo]) / (log_size[hi] - log_size[lo]);
\* smooth is smooth2 / 2 and log_size is lsz / STEPS_PER_OCTAVE octaves
Deriv(sm2, lsz, n) ==
    [i \in 0..(n - 1) |->
        LET lo == WinLo(i, DERIV_WINDOW)
            hi == WinHi(i, DERIV_WINDOW, n)
            denom == lsz[hi] - lsz[lo]
        IN  IF hi = lo \/ denom <= 0 THEN <<0, 1>>
            ELSE <<STEPS_PER_OCTAVE * (sm2[hi] - sm2[lo]), 2 * denom>>]

\* step 4: the radius-2 median of deriv
SDeriv(dv, n, tmp_ok) ==
    [i \in 0..(n - 1) |->
        median_ofR(dv, WinLo(i, SDERIV_RADIUS), WinHi(i, SDERIV_RADIUS, n),
                   tmp_ok)]

\* step 5: i is a peak
IsPeak(sd, i) ==
    /\ RLeq(sd[i - 1], sd[i])
    /\ RLeq(sd[i + 1], sd[i])
    /\ RLess(MIN_PEAK_HEIGHT, sd[i])

\* step 5 without the test npeaks < MAX_PEAKS
RECURSIVE FindPeaks_Uncapped(_, _, _, _)
FindPeaks_Uncapped(sd, n, i, found) ==
    IF ~(i + 1 < n) THEN found
    ELSE FindPeaks_Uncapped(sd, n, i + 1,
                   IF IsPeak(sd, i)
                   THEN Append(found, [pos |-> i, mag |-> sd[i], alive |-> TRUE])
                   ELSE found)

\* step 5: the peaks in ascending index, the first MAX_PEAKS of them
RECURSIVE FindPeaks(_, _, _, _)
FindPeaks(sd, n, i, found) ==
    IF ~(i + 1 < n /\ Len(found) < MAX_PEAKS) THEN found
    ELSE FindPeaks(sd, n, i + 1,
                   IF IsPeak(sd, i)
                   THEN Append(found, [pos |-> i, mag |-> sd[i], alive |-> TRUE])
                   ELSE found)

\* step 6 with the comparison turned round: the taller peak is marked dead
RECURSIVE MergeInner_KeepsSmaller(_, _, _)
MergeInner_KeepsSmaller(pk, i, j) ==
    IF j > Len(pk) THEN pk
    ELSE IF ~pk[j].alive THEN MergeInner_KeepsSmaller(pk, i, j + 1)
    ELSE IF pk[j].pos - pk[i].pos <= MERGE_DISTANCE
         THEN IF RLess(pk[j].mag, pk[i].mag)
              THEN [pk EXCEPT ![i].alive = FALSE]
              ELSE MergeInner_KeepsSmaller([pk EXCEPT ![j].alive = FALSE], i,
                                           j + 1)
         ELSE MergeInner_KeepsSmaller(pk, i, j + 1)

\* step 6, inner loop: peak i (alive) against the later peaks j, j+1, ...
RECURSIVE MergeInner(_, _, _)
MergeInner(pk, i, j) ==
    IF j > Len(pk) THEN pk
    ELSE IF ~pk[j].alive THEN MergeInner(pk, i, j + 1)
    ELSE IF pk[j].pos - pk[i].pos <= MERGE_DISTANCE
         THEN IF RLess(pk[i].mag, pk[j].mag)
              THEN [pk EXCEPT ![i].alive = FALSE]
              ELSE MergeInner([pk EXCEPT ![j].alive = FALSE], i, j + 1)
         ELSE MergeInner(pk, i, j + 1)

\* step 6, outer loop
RECURSIVE MergeOuter(_, _)
MergeOuter(pk, i) ==
    IF i > Len(pk) THEN pk
    ELSE IF ~pk[i].alive THEN MergeOuter(pk, i + 1)
    ELSE MergeOuter(MergeInner(pk, i, i + 1), i + 1)

\* step 6 and the compaction after it
MergePeaks(pk) == SelectSeq(MergeOuter(pk, 1), LAMBDA e : e.alive)

\* step 7 with the magnitude comparison turned round
GoesBefore_SmallestFirst(x, y, byMag) ==
    IF byMag THEN RLess(x.mag, y.mag) ELSE x.pos < y.pos

\* the exchange sort of steps 7: for i, for j > i, swap entries i and j when
\* entry j goes before entry i; byMag sorts by descending magnitude, otherwise
\* by ascending index.  Only the first `last` entries take part.
GoesBefore(x, y, byMag) ==
    IF byMag THEN RLess(y.mag, x.mag) ELSE x.pos < y.pos

RECURSIVE ExchangeSort(_, _, _, _, _)
ExchangeSort(pk, i, j, last, byMag) ==
    IF i >= last THEN pk
    ELSE IF j > last THEN ExchangeSort(pk, i + 1, i + 2, last, byMag)
    ELSE IF GoesBefore(pk[j], pk[i], byMag)
         THEN ExchangeSort([pk EXCEPT ![i] = pk[j], ![j] = pk[i]], i, j + 1,
                           last, byMag)
         ELSE ExchangeSort(pk, i, j + 1, last, byMag)

\* how many peaks step 7 keeps
TopCount(np) == IF np > 3 THEN 3 ELSE np

\* step 7: the top three by magnitude, in ascending index
SelectTop(pk) ==
    LET byMag == ExchangeSort(pk, 1, 2, Len(pk), TRUE)
        sel   == TopCount(Len(pk))
    IN  SubSeq(ExchangeSort(byMag, 1, 2, sel, FALSE), 1, sel)

\* the sample admitted to a plateau set: the test reads the smoothed
\* derivative only, not the latency
InPlateau(sd, lat, i) == RLess(sd[i], MIN_PEAK_HEIGHT)

\* step 8: the indices from..to-1 whose sample is admitted, in ascending
\* order, at most MAX_PLATEAU of them
RECURSIVE PlateauIdx(_, _, _, _, _)
PlateauIdx(sd, lat, i, to, got) ==
    IF ~(i < to /\ Len(got) < MAX_PLATEAU) THEN got
    ELSE PlateauIdx(sd, lat, i + 1, to,
                    IF InPlateau(sd, lat, i) THEN Append(got, i) ELSE got)

\* the latencies of a plateau set as the array lo_vals / up_vals
PlateauVals(lat, idxs) == [k \in 0..(Len(idxs) - 1) |-> lat[idxs[k + 1]]]

\* the threshold sqrt(lo_med * up_med) is [nan |-> the product is negative,
\* sq4 |-> 4 * lo_med * up_med]; x >= threshold and x < threshold for a
\* latency x (both false for a NaN threshold)
Threshold(lo2, up2) == [nan |-> lo2 * up2 < 0, sq4 |-> lo2 * up2]
AtLeast(x, thr) == ~thr.nan /\ x >= 0 /\ 4 * x * x >= thr.sq4
Below(x, thr)   == ~thr.nan /\ (x < 0 \/ 4 * x * x < thr.sq4)

\* the first index in from..to-1 whose latency is >= the threshold, else pk
RECURSIVE Crossing(_, _, _, _, _)
Crossing(lat, thr, i, to, pk) ==
    IF i >= to THEN pk
    ELSE IF AtLeast(lat[i], thr) THEN i
    ELSE Crossing(lat, thr, i + 1, to, pk)

\* the resolution at which the model keeps an interpolated boundary: the
\* position between two samples is rounded down to a multiple of 1/4
INTERP_GRID == 4

\* a size on the model's axis: log2(bytes) in units of
\* 1 / (STEPS_PER_OCTAVE * INTERP_GRID) octave; 0 is the capacity "not detected"
PosOfSample(lsz, i) == INTERP_GRID * lsz[i]
PosOfPow2(e) == INTERP_GRID * STEPS_PER_OCTAVE * e

\* floor(INTERP_GRID * f) for f = (log thr - log a) / (log b - log a),
\* 0 < a < thr <= b: f >= k/4 iff thr^4 >= b^k * a^(4-k)
InterpSteps(thr, a, b) ==
    CHOOSE k \in 0..INTERP_GRID :
        /\ thr.sq4 * thr.sq4 >= 16 * (b^k) * (a^(INTERP_GRID - k))
        /\ (k < INTERP_GRID =>
              thr.sq4 * thr.sq4 < 16 * (b^(k + 1)) * (a^(INTERP_GRID - k - 1)))

\* (size_t)exp(ls) of the interpolation.  log of a latency <= 0 makes ls a NaN,
\* and the conversion of NaN to size_t is undefined: nan_cast is what the build
\* yields for it
Interpolate(lsz, thr, a, b, ci, nan_cast) ==
    IF a <= 0 THEN nan_cast
    ELSE PosOfSample(lsz, ci - 1)
         + InterpSteps(thr, a, b) * (lsz[ci] - lsz[ci - 1])

\* what (size_t)NaN yields: 0 (ARM64 fcvtzu) or 2^63 (x86-64)
NanCasts == {0, PosOfPow2(63)}

\* step 8 for transition t (from 0) of the selected peaks `top`
Transition(sel, t, sd, lat, lsz, n, tmp_ok, nan_cast) ==
    LET pk       == sel[t + 1].pos
        lo_start == IF t > 0 THEN sel[t].pos + 1 ELSE 0
        up_end   == IF t + 1 < Len(sel) THEN sel[t + 2].pos ELSE n
        lo_idx   == PlateauIdx(sd, lat, lo_start, pk, << >>)
        up_idx   == PlateauIdx(sd, lat, pk + 1, up_end, << >>)
        skipped  == Len(lo_idx) < 1 \/ Len(up_idx) < 1
        lo2      == median_of2(PlateauVals(lat, lo_idx), 0, Len(lo_idx) - 1, tmp_ok)
        up2      == median_of2(PlateauVals(lat, up_idx), 0, Len(up_idx) - 1, tmp_ok)
        thr      == Threshold(lo2, up2)
        ci       == Crossing(lat, thr, lo_start, up_end, pk)
        interp   == ci > 0 /\ Below(lat[ci - 1], thr) /\ AtLeast(lat[ci], thr)
    IN  IF skipped
        THEN [t |-> t, pk |-> pk, lo_start |-> lo_start, up_end |-> up_end,
              lo_idx |-> lo_idx, up_idx |-> up_idx, skipped |-> TRUE,
              lo2 |-> 0, up2 |-> 0, thr |-> Threshold(0, 0), ci |-> pk,
              interp |-> FALSE, boundary |-> 0]
        ELSE [t |-> t, pk |-> pk, lo_start |-> lo_start, up_end |-> up_end,
              lo_idx |-> lo_idx, up_idx |-> up_idx, skipped |-> FALSE,
              lo2 |-> lo2, up2 |-> up2, thr |-> thr, ci |-> ci,
              interp |-> interp,
              boundary |-> IF interp
                           THEN Interpolate(lsz, thr, lat[ci - 1], lat[ci], ci,
                                            nan_cast)
                           ELSE PosOfSample(lsz, ci)]

\* the sweep's range: MIN_SIZE_KB is 1 KB = 2^10 bytes, and the model stops
\* the sweep after MaxOctaves doublings where MAX_SIZE_KB allows 19
MIN_SIZE_LOG2 == 10
SweepCount == STEPS_PER_OCTAVE * MaxOctaves + 1

\* generate_sizes: STEPS_PER_OCTAVE sizes per doubling from MIN_SIZE_KB up, as
\* log positions
generate_sizes(cnt) ==
    [i \in 0..(cnt - 1) |-> STEPS_PER_OCTAVE * MIN_SIZE_LOG2 + i]

\* the latencies the model measures, in ns
Latencies == {1, 2, 8}

\* a latency profile: one level for each octave of sizes (the last sample
\* goes with the last octave)
OctaveOf(i) ==
    IF i \div STEPS_PER_OCTAVE < MaxOctaves THEN i \div STEPS_PER_OCTAVE
    ELSE MaxOctaves - 1
Profile(level, cnt) == [i \in 0..(cnt - 1) |-> level[OctaveOf(i)]]

\* lines 136-146: zero the capacities, return below MIN_SAMPLES samples,
\* allocate the five arrays (any failure goes to cleanup), then step 1
Step1_LogTransform ==
    /\ ipc = "entry"
    /\ info' = [info EXCEPT !.l1_size_bytes = 0, !.l2_size_bytes = 0,
                            !.l3_size_bytes = 0]
    /\ \/ /\ num < MIN_SAMPLES
          /\ ipc' = "done"
          /\ UNCHANGED log_lat
       \/ /\ num >= MIN_SAMPLES
          /\ \E arrays_ok \in BOOLEAN :
                IF arrays_ok
                THEN /\ log_lat' = LogLat(latencies, num)
                     /\ ipc' = "smooth"
                ELSE /\ ipc' = "done"
                     /\ UNCHANGED log_lat
    /\ UNCHANGED <<num, sizes, latencies, smooth, deriv, sderiv, peaks, trans>>
    /\ UNCHANGED <<kvars, dvars, xvars>>

\* step 2; every median_of of the step finds memory for its copy, or none does
Step2_Smooth ==
    /\ ipc = "smooth"
    /\ \E tmp_ok \in BOOLEAN : smooth' = Smooth2(log_lat, num, tmp_ok)
    /\ ipc' = "deriv"
    /\ UNCHANGED <<num, sizes, latencies, info, log_lat, deriv, sderiv, peaks,
                   trans>>
    /\ UNCHANGED <<kvars, dvars, xvars>>

\* step 3
Step3_Derivative ==
    /\ ipc = "deriv"
    /\ deriv' = Deriv(smooth, sizes, num)
    /\ ipc' = "sderiv"
    /\ UNCHANGED <<num, sizes, latencies, info, log_lat, smooth, sderiv, peaks,
                   trans>>
    /\ UNCHANGED <<kvars, dvars, xvars>>

\* step 4
Step4_SmoothDerivative ==
    /\ ipc = "sderiv"
    /\ \E tmp_ok \in BOOLEAN : sderiv' = SDeriv(deriv, num, tmp_ok)
    /\ ipc' = "peaks"
    /\ UNCHANGED <<num, sizes, latencies, info, log_lat, smooth, deriv, peaks,
                   trans>>
    /\ UNCHANGED <<kvars, dvars, xvars>>

\* step 5
Step5_FindPeaks ==
    /\ ipc = "peaks"
    /\ peaks' = FindPeaks(sderiv, num, 1, << >>)
    /\ ipc' = "merge"
    /\ UNCHANGED <<num, sizes, latencies, info, log_lat, smooth, deriv, sderiv,
                   trans>>
    /\ UNCHANGED <<kvars, dvars, xvars>>

\* step 6
Step6_Merge ==
    /\ ipc = "merge"
    /\ peaks' = MergePeaks(peaks)
    /\ ipc' = "select"
    /\ UNCHANGED <<num, sizes, latencies, info, log_lat, smooth, deriv, sderiv,
                   trans>>
    /\ UNCHANGED <<kvars, dvars, xvars>>

\* step 7; from here on peaks holds the selected entries 0..top-1
Step7_Select ==
    /\ ipc = "select"
    /\ peaks' = SelectTop(peaks)
    /\ ipc' = "boundary"
    /\ UNCHANGED <<num, sizes, latencies, info, log_lat, smooth, deriv, sderiv,
                   trans>>
    /\ UNCHANGED <<kvars, dvars, xvars>>

\* the switch with its cases one level too high
SetLevel_Shifted(inf, t, boundary) ==
    IF t = 0 THEN [inf EXCEPT !.l2_size_bytes = boundary]
    ELSE IF t = 1 THEN [inf EXCEPT !.l3_size_bytes = boundary]
    ELSE inf

\* the switch at the end of step 8
SetLevel(inf, t, boundary) ==
    IF t = 0 THEN [inf EXCEPT !.l1_size_bytes = boundary]
    ELSE IF t = 1 THEN [inf EXCEPT !.l2_size_bytes = boundary]
    ELSE IF t = 2 THEN [inf EXCEPT !.l3_size_bytes = boundary]
    ELSE inf

\* step 8, one pass of the loop over t
Step8_Boundary ==
    /\ ipc = "boundary"
    /\ Len(trans) < Len(peaks)
    /\ \E tmp_ok \in BOOLEAN, nan_cast \in NanCasts :
          LET r == Transition(peaks, Len(trans), sderiv, latencies, sizes, num,
                              tmp_ok, nan_cast)
          IN  /\ trans' = Append(trans, r)
              /\ info' = IF r.skipped THEN info
                         ELSE SetLevel(info, r.t, r.boundary)
    /\ UNCHANGED <<ipc, num, sizes, latencies, log_lat, smooth, deriv, sderiv,
                   peaks>>
    /\ UNCHANGED <<kvars, dvars, xvars>>

\* cleanup: and the function returns
Cleanup ==
    /\ ipc = "boundary"
    /\ Len(trans) = Len(peaks)
    /\ ipc' = "done"
    /\ UNCHANGED <<num, sizes, latencies, info, log_lat, smooth, deriv, sderiv,
                   peaks, trans>>
    /\ UNCHANGED <<kvars, dvars, xvars>>

\* the kernels at rest, outside any call
KIdle == KInit /\ libc = 0

(***************************************************************************)
(* SpecInfer: detect_boundaries on its own.  The sizes are those of        *)
(* generate_sizes; every octave of sizes has one latency of Latencies, and  *)
(* from some octave on every measurement may have failed (the buffers grow *)
(* along the sweep); n is SweepCount, or one less than MIN_SAMPLES.        *)
(***************************************************************************)
Levels ==
    {level \in [0..(MaxOctaves - 1) -> Latencies \cup {SENTINEL}] :
        \A o \in 0..(MaxOctaves - 2) :
            level[o] = SENTINEL => level[o + 1] = SENTINEL}

InitInfer ==
    /\ KIdle
    /\ DIdle
    /\ XIdle
    /\ ipc = "entry"
    /\ num \in {MIN_SAMPLES - 1, SweepCount}
    /\ sizes = generate_sizes(num)
    /\ latencies \in {Profile(level, num) : level \in Levels}
    /\ info = UnsetInfo
    /\ log_lat = << >>
    /\ smooth = << >>
    /\ deriv = << >>
    /\ sderiv = << >>
    /\ peaks = << >>
    /\ trans = << >>

NextInfer ==
    \/ Step1_LogTransform
    \/ Step2_Smooth
    \/ Step3_Derivative
    \/ Step4_SmoothDerivative
    \/ Step5_FindPeaks
    \/ Step6_Merge
    \/ Step7_Select
    \/ Step8_Boundary
    \/ Cleanup

SpecInfer == InitInfer /\ [][NextInfer]_vars

(***************************************************************************)
(* SpecFullSweep: detect_boundaries on a sweep of the program's length,    *)
(* the 77 sizes from 1 KB to 512 MB, where more than MAX_PEAKS maxima and  *)
(* more than MAX_PLATEAU flat samples can occur.  The curves are flat at 1 *)
(* up to some octave and then rise: by steps to 2 and 8, or by doubling    *)
(* with every octave up to the end of the sweep.                           *)
(***************************************************************************)
\* MAX_SIZE_KB is 512 * 1024 KB, 19 doublings of MIN_SIZE_KB
FULL_OCTAVES == 19
FullSweepCount == STEPS_PER_OCTAVE * FULL_OCTAVES + 1

\* the octaves from which a doubling curve starts to rise
RampFrom == {0, 4, 8, 11}

\* 1 below octave a, 2 from a to below b, 8 from b on
StepLevels ==
    {[o \in 0..(FULL_OCTAVES - 1) |->
         IF o < a THEN 1 ELSE IF o < b THEN 2 ELSE 8] :
        a \in 0..FULL_OCTAVES, b \in 0..FULL_OCTAVES}

RampLevels ==
    {[o \in 0..(FULL_OCTAVES - 1) |-> IF o < a THEN 1 ELSE 2^(o - a + 1)] :
        a \in RampFrom}

FullProfile(level, cnt) ==
    [i \in 0..(cnt - 1) |->
        level[Min(i \div STEPS_PER_OCTAVE, FULL_OCTAVES - 1)]]

InitFullSweep ==
    /\ KIdle
    /\ DIdle
    /\ XIdle
    /\ ipc = "entry"
    /\ num \in {MIN_SAMPLES - 1, FullSweepCount}
    /\ sizes = generate_sizes(num)
    /\ latencies \in {FullProfile(level, num) :
                         level \in StepLevels \cup RampLevels}
    /\ info = UnsetInfo
    /\ log_lat = << >>
    /\ smooth = << >>
    /\ deriv = << >>
    /\ sderiv = << >>
    /\ peaks = << >>
    /\ trans = << >>

SpecFullSweep == InitFullSweep /\ [][NextInfer]_vars

(***************************************************************************)
(* SpecDetect: one call of membench_cpu_detect_cache.  The machine has one *)
(* latency for each octave of sizes, that of its cache up to some size and *)
(* that of its memory beyond (or one of the two throughout); the read      *)
(* latency kernel measures it, or fails for want of memory at no more than *)
(* MaxFailures samples, or faults when its builder's malloc fails (see     *)
(* build_pointer_chase_cl above).                                          *)
(***************************************************************************)
MachineLatencies == {1, 8}

Machines ==
    {m \in [0..(MaxOctaves - 1) -> MachineLatencies] :
        \A o \in 0..(MaxOctaves - 2) : m[o] <= m[o + 1]}

\* what membench_cpu_read_latency(sizes[i], iters, &lat) can do at sample i:
\* return 0 with lat.avg_latency_ns measured, return the failure code with
\* lat as initialised ({0}), or not return
Failed(hist) == Cardinality({k \in 1..Len(hist) : hist[k].rc # 0})

ReadLatencyOutcomes(m, i, hist) ==
    {[rc |-> 0, avg |-> m[OctaveOf(i)], faulted |-> FALSE],
     [rc |-> NoRet, avg |-> 0, faulted |-> TRUE]}
    \cup (IF Failed(hist) < MaxFailures
          THEN {[rc |-> AllocFailureCode, avg |-> 0, faulted |-> FALSE]}
          ELSE {})

\* lines 359-363: what the sweep stores for a sample
RecordSample_KeepsInitial(o) == o.avg

RecordSample(o) == IF o.rc # 0 THEN SENTINEL ELSE o.avg

InitDetect ==
    /\ KIdle
    /\ IIdle
    /\ XIdle
    /\ dpc = "entry"
    /\ info_arg \in BOOLEAN
    /\ machine \in Machines
    /\ sweep_i = 0
    /\ dret = NoRet
    /\ sizes_held = FALSE
    /\ lats_held = FALSE
    /\ pinned = FALSE
    /\ outcomes = << >>

\* lines 326-330: the null check and generate_sizes, whose malloc may fail
DetectEntry ==
    /\ dpc = "entry"
    /\ IF ~info_arg
       THEN /\ dret' = 0 - 1
            /\ dpc' = "done"
            /\ UNCHANGED <<num, sizes, sizes_held>>
       ELSE \E sizes_ok \in BOOLEAN :
               IF sizes_ok
               THEN /\ num' = SweepCount
                    /\ sizes' = generate_sizes(SweepCount)
                    /\ sizes_held' = TRUE
                    /\ dpc' = "alloc"
                    /\ UNCHANGED dret
               ELSE /\ dret' = 0 - 1
                    /\ dpc' = "done"
                    /\ UNCHANGED <<num, sizes, sizes_held>>
    /\ UNCHANGED <<info_arg, machine, sweep_i, lats_held, pinned, outcomes>>
    /\ UNCHANGED <<ipc, latencies, info, log_lat, smooth, deriv, sderiv, peaks,
                   trans>>
    /\ UNCHANGED <<kvars, xvars>>

\* the failure return without free(sizes)
FreeSizes_Leaked(held) == held

\* line 333: free(sizes) before the failure return
FreeSizes(held) == FALSE

\* lines 332-333: the latencies array
DetectAlloc ==
    /\ dpc = "alloc"
    /\ \E lats_ok \in BOOLEAN :
          IF lats_ok
          THEN /\ latencies' = [i \in 0..(num - 1) |-> Uninit]
               /\ lats_held' = TRUE
               /\ dpc' = "pin"
               /\ UNCHANGED <<dret, sizes_held>>
          ELSE /\ sizes_held' = FreeSizes(sizes_held)
               /\ dret' = 0 - 1
               /\ dpc' = "done"
               /\ UNCHANGED <<latencies, lats_held>>
    /\ UNCHANGED <<info_arg, machine, sweep_i, pinned, outcomes>>
    /\ UNCHANGED <<ipc, num, sizes, info, log_lat, smooth, deriv, sderiv, peaks,
                   trans>>
    /\ UNCHANGED <<kvars, xvars>>

\* lines 339-349: what the pin leaves in old_affinity / old_mask.  Windows
\* gets the previous mask from SetThreadAffinityMask, 0 when it fails; Linux
\* reads it with sched_getaffinity, whose result is not checked, so when
\* that fails old_mask is indeterminate; macOS saves nothing
SavedAffinity(h, aff, old) ==
    IF h.platform = "windows" THEN {IF h.pin_works THEN aff ELSE 0}
    ELSE IF h.platform = "linux"
         THEN IF h.save_works THEN {aff} ELSE AffinityMasks \cup {0}
         ELSE {old}

\* lines 339-349: the thread's affinity / QoS class after the pin
PinnedAffinity(h, aff) ==
    IF ~h.pin_works THEN aff
    ELSE IF h.platform = "macos" THEN QOS_CLASS_USER_INTERACTIVE
         ELSE CORE0_MASK

\* lines 367-375: the thread's affinity / QoS class after the restore.  An
\* empty mask is refused by sched_setaffinity; Windows skips the call on 0
RestoredAffinity(h, aff, old) ==
    IF h.platform = "macos"
    THEN IF h.pin_works THEN QOS_CLASS_DEFAULT ELSE aff
    ELSE IF old = 0 THEN aff ELSE old

\* lines 337-349: pin the thread to core 0
PinThread ==
    /\ dpc = "pin"
    /\ pinned' = TRUE
    /\ old_affinity' \in SavedAffinity(host, affinity, old_affinity)
    /\ affinity' = PinnedAffinity(host, affinity)
    /\ sweep_i' = 0
    /\ dpc' = "sweep"
    /\ UNCHANGED <<info_arg, machine, dret, sizes_held, lats_held, outcomes>>
    /\ UNCHANGED <<host, entry_affinity>>
    /\ UNCHANGED <<ivars, kvars, gvars, fvars, tvars, pvars, mvars, hvars, qvars>>

\* lines 354-364: one pass of the sweep loop
SweepSample ==
    /\ dpc = "sweep"
    /\ sweep_i < num
    /\ \E o \in ReadLatencyOutcomes(machine, sweep_i, outcomes) :
          IF o.faulted
          THEN /\ dpc' = "fault"
               /\ UNCHANGED <<latencies, sweep_i, outcomes>>
          ELSE /\ latencies' = [latencies EXCEPT ![sweep_i] = RecordSample(o)]
               /\ sweep_i' = sweep_i + 1
               /\ outcomes' = Append(outcomes, o)
               /\ UNCHANGED dpc
    /\ UNCHANGED <<info_arg, machine, dret, sizes_held, lats_held, pinned>>
    /\ UNCHANGED <<ipc, num, sizes, info, log_lat, smooth, deriv, sderiv, peaks,
                   trans>>
    /\ UNCHANGED <<kvars, xvars>>

\* lines 366-375: restore the affinity and call detect_boundaries
RestoreAndInfer ==
    /\ dpc = "sweep"
    /\ sweep_i = num
    /\ pinned' = FALSE
    /\ affinity' = RestoredAffinity(host, affinity, old_affinity)
    /\ ipc' = "entry"
    /\ dpc' = "infer"
    /\ UNCHANGED <<info_arg, machine, sweep_i, dret, sizes_held, lats_held,
                   outcomes>>
    /\ UNCHANGED <<num, sizes, latencies, info, log_lat, smooth, deriv, sderiv,
                   peaks, trans>>
    /\ UNCHANGED <<host, entry_affinity, old_affinity>>
    /\ UNCHANGED <<kvars, gvars, fvars, tvars, pvars, mvars, hvars, qvars>>

\* lines 377-381: hand the arrays to the caller and return 0
DetectReturn ==
    /\ dpc = "infer"
    /\ ipc = "done"
    /\ info' = [info EXCEPT !.num_samples = num, !.sample_sizes = TRUE,
                            !.sample_latencies = TRUE]
    /\ ipc' = "idle"
    /\ dret' = 0
    /\ dpc' = "done"
    /\ UNCHANGED <<info_arg, machine, sweep_i, sizes_held, lats_held, pinned,
                   outcomes>>
    /\ UNCHANGED <<num, sizes, latencies, log_lat, smooth, deriv, sderiv, peaks,
                   trans>>
    /\ UNCHANGED <<kvars, xvars>>

\* free(ptr) on an array: nothing for a null pointer; a non-null pointer
\* to an array that is no longer allocated is a double free
Release(ptr, held) ==
    [held |-> held /\ ~ptr, double |-> ptr /\ ~held]

\* the function without the two assignments of NULL
membench_cache_info_free_KeepsPointers(inf) ==
    [inf EXCEPT !.num_samples = 0]

\* cache_detect.c lines 388-390: the stores of membench_cache_info_free
membench_cache_info_free(inf) ==
    [inf EXCEPT !.sample_sizes = FALSE, !.sample_latencies = FALSE,
                !.num_samples = 0]

\* cache_detect.c lines 384-391: the caller disposes of the info it passed
\* to a successful detect_cache (main.c lines 205-208), or of a null info,
\* and may do so a second time.  A double free is undefined behaviour: the
\* process faults or goes on.
DisposeInfo ==
    /\ dpc \in {"done", "disposed"}
    /\ dret = 0 \/ ~info_arg
    /\ IF ~info_arg
       THEN /\ dpc' = IF dpc = "done" THEN "disposed" ELSE "disposed_twice"
            /\ UNCHANGED <<info, sizes_held, lats_held>>
       ELSE LET s == Release(info.sample_sizes, sizes_held)
                l == Release(info.sample_latencies, lats_held)
            IN  \E crash \in IF s.double \/ l.double THEN BOOLEAN ELSE {FALSE} :
                    IF crash
                    THEN /\ dpc' = "fault"
                         /\ UNCHANGED <<info, sizes_held, lats_held>>
                    ELSE /\ dpc' = IF dpc = "done" THEN "disposed"
                                   ELSE "disposed_twice"
                         /\ sizes_held' = s.held
                         /\ lats_held' = l.held
                         /\ info' = membench_cache_info_free(info)
    /\ UNCHANGED <<info_arg, machine, sweep_i, dret, pinned, outcomes>>
    /\ UNCHANGED <<ipc, num, sizes, latencies, log_lat, smooth, deriv, sderiv,
                   peaks, trans>>
    /\ UNCHANGED <<kvars, xvars>>

NextDetect ==
    \/ DetectEntry
    \/ DetectAlloc
    \/ PinThread
    \/ SweepSample
    \/ RestoreAndInfer
    \/ Step1_LogTransform
    \/ Step2_Smooth
    \/ Step3_Derivative
    \/ Step4_SmoothDerivative
    \/ Step5_FindPeaks
    \/ Step6_Merge
    \/ Step7_Select
    \/ Step8_Boundary
    \/ Cleanup
    \/ DetectReturn
    \/ DisposeInfo

SpecDetect == InitDetect /\ [][NextDetect]_vars

(***************************************************************************)
(* SpecPin: one call of membench_cpu_detect_cache on every platform the    *)
(* source has a branch for, entered by a thread with any affinity mask or  *)
(* QoS class, on a machine with one latency step in the middle of the      *)
(* sweep.  The affinity calls' return values are not checked by the code;  *)
(* whether they work is a fact of the host.                                *)
(***************************************************************************)
Hosts ==
    [platform : {"windows", "linux", "macos"}, pin_works : BOOLEAN,
     save_works : BOOLEAN]

EntryAffinities(h) ==
    IF h.platform = "macos" THEN QosClasses ELSE AffinityMasks

PinMachine == [o \in 0..(MaxOctaves - 1) |->
                  IF 2 * o < MaxOctaves THEN 1 ELSE 8]

InitPin ==
    /\ KIdle
    /\ IIdle
    /\ HIdle
    /\ QIdle
    /\ GIdle
    /\ FIdle
    /\ TIdle
    /\ PIdle
    /\ MIdle
    /\ dpc = "entry"
    /\ info_arg \in BOOLEAN
    /\ machine = PinMachine
    /\ sweep_i = 0
    /\ dret = NoRet
    /\ sizes_held = FALSE
    /\ lats_held = FALSE
    /\ pinned = FALSE
    /\ outcomes = << >>
    /\ host \in Hosts
    \* sched_getaffinity is Linux's alone
    /\ host.platform # "linux" => host.save_works
    /\ affinity \in EntryAffinities(host)
    /\ entry_affinity = affinity
    /\ old_affinity = Uninit

SpecPin == InitPin /\ [][NextDetect]_vars

(***************************************************************************)
(* SpecTimer: the timer of src/core/timer.c on each of its three           *)
(* platforms: one membench_timer_init, then timestamp and resolution       *)
(* reads in any order while the system's clock advances.  The clock is a   *)
(* QueryPerformanceCounter tick count on Windows, a mach_absolute_time     *)
(* tick count on macOS and a struct timespec on Linux.                     *)
(***************************************************************************)
TimerHosts == {h \in Hosts : h.pin_works /\ h.save_works}

\* what the system reports: 1 MHz and 10 MHz performance counters; the
\* timebases 1/1 (Intel) and 125/3 (Apple silicon)
Timebases(pf) ==
    IF pf = "windows"
    THEN {[freq |-> f, numer |-> 0, denom |-> 0] : f \in {1000000, 10000000}}
    ELSE IF pf = "macos"
         THEN {[freq |-> 0, numer |-> 1, denom |-> 1],
               [freq |-> 0, numer |-> 125, denom |-> 3]}
         ELSE {NoTimebase}

Times1e9(x) == MulSmall(MulSmall(MulSmall(x, 1000), 1000), 1000)

\* the largest tick count whose product with numer fits 64 bits, and the
\* largest number of seconds whose nanoseconds do
TickEdge(numer) == DivSmall(U64_MAX, numer)
SecEdge == DivSmall(DivSmall(DivSmall(U64_MAX, 1000), 1000), 1000)

\* the clock readings of the model: early ones, and the ones around the
\* edges.  A Windows reading below 2^53 / 10^9 ticks is converted exactly
\* by the double arithmetic of line 43
ClockSamples(pf, tb) ==
    IF pf = "linux"
    THEN {[sec |-> sc, nsec |-> ns, ticks |-> U64(0)] :
            sc \in {U64(0), U64(1), SecEdge}, ns \in {500, 999999999}}
    ELSE IF pf = "macos"
         THEN {[sec |-> U64(0), nsec |-> 0, ticks |-> tk] :
                 tk \in {U64(24), U64(48), TickEdge(tb.numer)}
                        \cup (IF tb.numer > 1
                              THEN {AddU64(TickEdge(tb.numer), U64(1))}
                              ELSE {})}
         ELSE {[sec |-> U64(0), nsec |-> 0, ticks |-> U64(tk)] :
                 tk \in {10, 11, 5000, 5000000}}

\* reading c2 is later than reading c1
Later(c1, c2) ==
    \/ LessU64(c1.ticks, c2.ticks)
    \/ LessU64(c1.sec, c2.sec)
    \/ c1.sec = c2.sec /\ c1.nsec < c2.nsec

\* lines 39-55: membench_timer_ns at clock reading c
membench_timer_ns(pf, c, freq, tb) ==
    IF pf = "windows" THEN MulSmall(c.ticks, 1000000000 \div freq)
    ELSE IF pf = "linux" THEN AddU64(Times1e9(c.sec), U64(c.nsec))
    ELSE DivSmall(MulSmall(c.ticks, tb.numer), tb.denom)

\* lines 57-69: membench_timer_resolution_ns at clock reading c, a double:
\* sec * 10^9 + num / den nanoseconds
membench_timer_resolution_ns(pf, c, freq, tb) ==
    IF pf = "windows" THEN [sec |-> U64(0), num |-> 1000000000, den |-> freq]
    ELSE IF pf = "linux" THEN [sec |-> c.sec, num |-> c.nsec, den |-> 1]
    ELSE [sec |-> U64(0), num |-> tb.numer, den |-> tb.denom]

InitTimer ==
    /\ KIdle
    /\ IIdle
    /\ HIdle
    /\ QIdle
    /\ DIdle
    /\ GIdle
    /\ FIdle
    /\ PIdle
    /\ MIdle
    /\ host \in TimerHosts
    /\ affinity = 3
    /\ entry_affinity = 3
    /\ old_affinity = Uninit
    /\ tpc = "uninit"
    /\ os_timebase \in Timebases(host.platform)
    /\ clock \in ClockSamples(host.platform, os_timebase)
    /\ g_freq = 0
    /\ g_timebase = [numer |-> 0, denom |-> 0]
    /\ g_timer_ready = 0
    /\ timer_ret = NoRet
    /\ t1 = U64(0)
    /\ t2 = U64(0)
    /\ reads = 0
    /\ ticked = FALSE
    /\ advanced = FALSE
    /\ resolutions = {}

\* lines 20-37: membench_timer_init; the query may fail on Windows and macOS
membench_timer_init ==
    /\ tpc = "uninit"
    /\ \E query_ok \in BOOLEAN :
        IF host.platform = "linux"
        THEN /\ timer_ret' = 0
             /\ tpc' = "ready"
             /\ UNCHANGED <<g_freq, g_timebase, g_timer_ready>>
        ELSE IF query_ok
        THEN /\ g_freq' = os_timebase.freq
             /\ g_timebase' = [numer |-> os_timebase.numer,
                               denom |-> os_timebase.denom]
             /\ g_timer_ready' = 1
             /\ timer_ret' = 0
             /\ tpc' = "ready"
        ELSE /\ timer_ret' = 0 - 1
             /\ tpc' = "failed"
             /\ UNCHANGED <<g_freq, g_timebase, g_timer_ready>>
    /\ UNCHANGED <<clock, os_timebase, t1, t2, reads, ticked, advanced,
                   resolutions>>
    /\ UNCHANGED <<kvars, ivars, dvars, gvars, avars, fvars, pvars,
                   mvars, hvars, qvars>>

\* the system's clock advances
ClockTick ==
    /\ tpc = "ready"
    /\ \E c \in ClockSamples(host.platform, os_timebase) :
        /\ Later(clock, c)
        /\ clock' = c
    /\ ticked' = TRUE
    /\ UNCHANGED <<tpc, os_timebase, g_freq, g_timebase, g_timer_ready,
                   timer_ret, t1, t2, reads, advanced, resolutions>>
    /\ UNCHANGED <<kvars, ivars, dvars, gvars, avars, fvars, pvars,
                   mvars, hvars, qvars>>

\* lines 39-55: a caller reads a timestamp
ReadTimestamp ==
    /\ tpc = "ready"
    /\ t1' = t2
    /\ t2' = membench_timer_ns(host.platform, clock, g_freq, g_timebase)
    /\ reads' = IF reads < 2 THEN reads + 1 ELSE 2
    /\ advanced' = ticked
    /\ ticked' = FALSE
    /\ UNCHANGED <<tpc, clock, os_timebase, g_freq, g_timebase, g_timer_ready,
                   timer_ret, resolutions>>
    /\ UNCHANGED <<kvars, ivars, dvars, gvars, avars, fvars, pvars,
                   mvars, hvars, qvars>>

\* lines 57-69: a caller reads the resolution
ReadResolution ==
    /\ tpc = "ready"
    /\ resolutions' = resolutions \cup
          {membench_timer_resolution_ns(host.platform, clock, g_freq,
                                        g_timebase)}
    /\ UNCHANGED <<tpc, clock, os_timebase, g_freq, g_timebase, g_timer_ready,
                   timer_ret, t1, t2, reads, ticked, advanced>>
    /\ UNCHANGED <<kvars, ivars, dvars, gvars, avars, fvars, pvars,
                   mvars, hvars, qvars>>

NextTimer ==
    \/ membench_timer_init
    \/ ClockTick
    \/ ReadTimestamp
    \/ ReadResolution

SpecTimer == InitTimer /\ [][NextTimer]_vars

(***************************************************************************)
(* SpecPlan: the two iteration planners, auto_iter of main.c and           *)
(* auto_iterations of cache_detect.c, each applied once to a buffer size.  *)
(* A size is plan_size units of plan_unit bytes, so that the default sizes *)
(* of main.c above 2 GiB are covered with unit 1024.                       *)
(***************************************************************************)
\* the number of width-byte elements in size * unit bytes
ElemsOf(size, unit, width) ==
    IF unit % width = 0 THEN size * (unit \div width)
    ELSE (size * unit) \div width

\* main.c lines 100-109
auto_iter_NoMinimum(size, unit, is_latency, line) ==
    LET elems0 == IF is_latency THEN ElemsOf(size, unit, line)
                  ELSE ElemsOf(size, unit, PTR_BYTES)
        elems == IF elems0 = 0 THEN 1 ELSE elems0
        target == IF is_latency THEN 20000000 ELSE 5000000
    IN  target \div elems

auto_iter(size, unit, is_latency, line) ==
    LET elems0 == IF is_latency THEN ElemsOf(size, unit, line)
                  ELSE ElemsOf(size, unit, PTR_BYTES)
        elems == IF elems0 = 0 THEN 1 ELSE elems0
        target == IF is_latency THEN 20000000 ELSE 5000000
        iters == target \div elems
    IN  IF iters < 2 THEN 2 ELSE iters

\* cache_detect.c lines 95-106
auto_iterations(size, unit, cl) ==
    LET nodes0 == ElemsOf(size, unit, cl)
        nodes == IF nodes0 = 0 THEN 1 ELSE nodes0
        iters == 100000000 \div nodes
    IN  IF iters < 4 THEN 4 ELSE iters

\* main.c lines 91-98, cache_detect.c lines 85-93: 64, or what macOS reports
\* for hw.cachelinesize (128 on Apple silicon)
CacheLineSizes == {CACHE_LINE_BYTES_DEFAULT, 2 * CACHE_LINE_BYTES_DEFAULT}

\* buffer sizes in bytes: around a word and a line, the sizes at which the
\* quotient reaches the minimum, and the default sizes of main.c up to 1 GiB
PlanBytes ==
    {0, 1, 7, 8, 9, 63, 64, 65, 127, 128, 129, 1024, 16384, 32768, 131072,
     524288, 4194304, 19999999, 20000000, 20000008, 33554432, 67108864,
     268435456, 640000000, 1073741824, 1600000000}

\* buffer sizes in KiB: the default sizes above 1 GiB (4, 8 and 10 GiB)
PlanKiB == {4194304, 8388608, 10485760}

InitPlan ==
    /\ KIdle
    /\ IIdle
    /\ HIdle
    /\ QIdle
    /\ DIdle
    /\ GIdle
    /\ AIdle
    /\ FIdle
    /\ TIdle
    /\ MIdle
    /\ ppc = "call"
    /\ plan_kind \in {"latency", "bandwidth", "sweep"}
    /\ plan_line \in CacheLineSizes
    /\ \/ plan_unit = 1 /\ plan_size \in PlanBytes
       \/ plan_unit = 1024 /\ plan_size \in PlanKiB
    /\ plan_iters = 0

\* main.c lines 100-109: a call of auto_iter
PlanAutoIter ==
    /\ ppc = "call"
    /\ plan_kind \in {"latency", "bandwidth"}
    /\ plan_iters' = auto_iter(plan_size, plan_unit, plan_kind = "latency",
                               plan_line)
    /\ ppc' = "done"
    /\ UNCHANGED <<plan_size, plan_unit, plan_kind, plan_line>>
    /\ UNCHANGED <<kvars, ivars, dvars, gvars, avars, fvars, tvars, mvars, hvars, qvars>>

\* cache_detect.c lines 95-106: a call of auto_iterations
PlanAutoIterations ==
    /\ ppc = "call"
    /\ plan_kind = "sweep"
    /\ plan_iters' = auto_iterations(plan_size, plan_unit, plan_line)
    /\ ppc' = "done"
    /\ UNCHANGED <<plan_size, plan_unit, plan_kind, plan_line>>
    /\ UNCHANGED <<kvars, ivars, dvars, gvars, avars, fvars, tvars, mvars, hvars, qvars>>

NextPlan ==
    \/ PlanAutoIter
    \/ PlanAutoIterations

SpecPlan == InitPlan /\ [][NextPlan]_vars

(***************************************************************************)
(* SpecDriver: one run of main of src/main.c, from the parsed options to   *)
(* the exit code, one library call per step.  Sizes are in KiB (the        *)
(* default sizes reach 10 GiB).  The GPU backend is the stub of            *)
(* src/gpu/gpu_stub.c.                                                     *)
(***************************************************************************)
\* main.c lines 39-66, in KiB
DEFAULT_LATENCY_SIZES == <<16, 32, 128, 512, 4096, 32768, 65536, 262144>>
DEFAULT_BW_SIZES ==
    <<16, 32, 128, 512, 4096, 32768, 65536, 262144, 1048576, 4194304, 8388608,
      10485760>>

\* (size_t)-1, the limit when the RAM is not known: above every size
NO_RAM_LIMIT == 2147483647

\* what the command line may ask for: all tests or one of them; the default
\* sizes, 32K or 8G; automatic or 5 iterations
OptionSets ==
    [target : {"cpu", "gpu", "all"},
     tests : {{"latency", "bandwidth", "cache_detect"}, {"latency"},
              {"bandwidth"}, {"cache_detect"}},
     buffer_size : {0, 32, 8388608},
     iterations : {0, 5}]

\* the machine's RAM in KiB: not known, 512 MiB, 8 GiB, 32 GiB
RamSizes == {0, 524288, 8388608, 33554432}

\* main.c line 155
RamLimit(ram) == IF ram > 0 THEN ram \div 2 ELSE NO_RAM_LIMIT

\* main.c line 315: if (membench_timer_init() != 0)
TimerInitFailed_Never(r) == FALSE

TimerInitFailed(r) == r # 0

\* main.c lines 115, 150, 196, 325-329: the parts of the run in order, and
\* whether the options select them
Stages ==
    <<"read_latency", "write_latency", "read_bandwidth", "write_bandwidth",
      "detect", "gpu", "return">>

Selected(o, stage) ==
    IF stage \in {"read_latency", "write_latency"}
    THEN o.target \in {"cpu", "all"} /\ "latency" \in o.tests
    ELSE IF stage \in {"read_bandwidth", "write_bandwidth"}
    THEN o.target \in {"cpu", "all"} /\ "bandwidth" \in o.tests
    ELSE IF stage = "detect"
    THEN o.target \in {"cpu", "all"} /\ "cache_detect" \in o.tests
    ELSE IF stage = "gpu" THEN o.target \in {"gpu", "all"}
    ELSE TRUE

\* the first selected stage after position k of Stages
StageAfter(o, k) ==
    LET later == {j \in (k + 1)..Len(Stages) : Selected(o, Stages[j])}
    IN  Stages[CHOOSE j \in later : \A j2 \in later : j <= j2]

StageIndex(stage) == CHOOSE j \in 1..Len(Stages) : Stages[j] = stage

\* a call main makes, as it is recorded in calls
Event(op, size, iters) == [op |-> op, size |-> size, iters |-> iters]

\* main.c lines 119-120: the iteration count of a kernel call
ItersFor(o, size, is_latency) ==
    IF o.iterations # 0 THEN o.iterations
    ELSE auto_iter(size, 1024, is_latency, CACHE_LINE_BYTES_DEFAULT)

InitDriver ==
    /\ KIdle
    /\ IIdle
    /\ HIdle
    /\ QIdle
    /\ DIdle
    /\ GIdle
    /\ AIdle
    /\ FIdle
    /\ TIdle
    /\ PIdle
    /\ mpc = "parse"
    /\ opts \in OptionSets
    /\ total_ram \in RamSizes
    /\ init_rc = NoRet
    /\ calls = << >>
    /\ loop_i = 0
    /\ rc = 0
    /\ exit_code = NoRet

\* main.c lines 298-312: the options; a cancelled menu and --help end the
\* run with 0, a bad command line with 1
MainParse ==
    /\ mpc = "parse"
    /\ \E outcome \in {"run", "cancelled", "help", "usage"} :
        IF outcome = "run"
        THEN mpc' = "timer_init" /\ UNCHANGED exit_code
        ELSE /\ mpc' = "exit"
             /\ exit_code' = IF outcome = "usage" THEN 1 ELSE 0
    /\ UNCHANGED <<opts, total_ram, init_rc, calls, loop_i, rc>>
    /\ UNCHANGED <<kvars, ivars, dvars, gvars, avars, fvars, tvars, pvars, hvars, qvars>>

\* main.c lines 314-318: membench_timer_init; on failure one message and
\* return 1
MainTimerInit ==
    /\ mpc = "timer_init"
    /\ \E r \in {0, 0 - 1} :
        /\ init_rc' = r
        /\ IF TimerInitFailed(r)
           THEN /\ calls' = Append(calls, Event("report", 0, 0))
                /\ exit_code' = 1
                /\ mpc' = "exit"
           ELSE /\ mpc' = "warmup"
                /\ UNCHANGED <<calls, exit_code>>
    /\ UNCHANGED <<opts, total_ram, loop_i, rc>>
    /\ UNCHANGED <<kvars, ivars, dvars, gvars, avars, fvars, tvars, pvars, hvars, qvars>>

\* main.c lines 320-333: cpu_freq_warmup, the system information, rc = 0
MainWarmup ==
    /\ mpc = "warmup"
    /\ calls' = Append(calls, Event("warmup", 0, 0))
    /\ rc' = 0
    /\ loop_i' = 0
    /\ mpc' = StageAfter(opts, 0)
    /\ UNCHANGED <<opts, total_ram, init_rc, exit_code>>
    /\ UNCHANGED <<kvars, ivars, dvars, gvars, avars, fvars, tvars, pvars, hvars, qvars>>

\* main.c lines 116-147: one call of a latency kernel, with the user's size
\* or the next default size; the kernel returns 0 or -1, or faults (C5)
RunLatency ==
    /\ mpc \in {"read_latency", "write_latency"}
    /\ IF opts.buffer_size = 0 /\ loop_i >= Len(DEFAULT_LATENCY_SIZES)
       THEN /\ mpc' = StageAfter(opts, StageIndex(mpc))
            /\ loop_i' = 0
            /\ UNCHANGED <<calls, rc>>
       ELSE LET size == IF opts.buffer_size # 0 THEN opts.buffer_size
                        ELSE DEFAULT_LATENCY_SIZES[loop_i + 1]
            IN  /\ calls' = Append(calls,
                                   Event(mpc, size, ItersFor(opts, size, TRUE)))
                /\ \E outcome \in {"ok", "failed", "fault"} :
                    IF outcome = "fault"
                    THEN mpc' = "fault" /\ UNCHANGED <<rc, loop_i>>
                    ELSE /\ rc' = IF outcome = "ok" THEN 0 ELSE 0 - 1
                         /\ IF opts.buffer_size # 0
                            THEN /\ mpc' = StageAfter(opts, StageIndex(mpc))
                                 /\ UNCHANGED loop_i
                            ELSE /\ loop_i' = loop_i + 1
                                 /\ UNCHANGED mpc
    /\ UNCHANGED <<opts, total_ram, init_rc, exit_code>>
    /\ UNCHANGED <<kvars, ivars, dvars, gvars, avars, fvars, tvars, pvars, hvars, qvars>>

\* main.c lines 150-193: one call of a bandwidth kernel, with the user's
\* size, or with the next default size unless that reaches the RAM limit,
\* which ends the loop
RunBandwidth ==
    /\ mpc \in {"read_bandwidth", "write_bandwidth"}
    /\ IF opts.buffer_size = 0
          /\ (\/ loop_i >= Len(DEFAULT_BW_SIZES)
              \/ DEFAULT_BW_SIZES[loop_i + 1] >= RamLimit(total_ram))
       THEN /\ mpc' = StageAfter(opts, StageIndex(mpc))
            /\ loop_i' = 0
            /\ UNCHANGED <<calls, rc>>
       ELSE LET size == IF opts.buffer_size # 0 THEN opts.buffer_size
                        ELSE DEFAULT_BW_SIZES[loop_i + 1]
            IN  /\ calls' = Append(calls,
                                   Event(mpc, size, ItersFor(opts, size, FALSE)))
                /\ \E outcome \in {"ok", "failed"} :
                    rc' = IF outcome = "ok" THEN 0 ELSE 0 - 1
                /\ IF opts.buffer_size # 0
                   THEN /\ mpc' = StageAfter(opts, StageIndex(mpc))
                        /\ UNCHANGED loop_i
                   ELSE /\ loop_i' = loop_i + 1
                        /\ UNCHANGED mpc
    /\ UNCHANGED <<opts, total_ram, init_rc, exit_code>>
    /\ UNCHANGED <<kvars, ivars, dvars, gvars, avars, fvars, tvars, pvars, hvars, qvars>>

\* main.c lines 196-204: membench_cpu_detect_cache, which returns 0 or -1 or
\* faults in its sweep
RunDetect ==
    /\ mpc = "detect"
    /\ calls' = Append(calls, Event("detect", 0, 0))
    /\ \E outcome \in {"ok", "failed", "fault"} :
        IF outcome = "fault"
        THEN mpc' = "fault" /\ UNCHANGED rc
        ELSE /\ rc' = IF outcome = "ok" THEN 0 ELSE 0 - 1
             /\ mpc' = StageAfter(opts, StageIndex(mpc))
    /\ UNCHANGED <<opts, total_ram, init_rc, loop_i, exit_code>>
    /\ UNCHANGED <<kvars, ivars, dvars, gvars, avars, fvars, tvars, pvars, hvars, qvars>>

\* main.c lines 69-85, in KiB
DEFAULT_GPU_BW_SIZES ==
    <<1024, 16384, 262144, 1048576, 4194304, 8388608, 10485760>>
DEFAULT_GPU_LAT_SIZES == <<1024, 4096, 32768>>

\* gpu_stub.c lines 10-17: the backend of a build without a GPU SDK
membench_gpu_get_info_Available == 1 - 1

membench_gpu_get_info == 0 - 1

\* main.c lines 229-230: the size of a bandwidth call with --size, and the
\* iteration count of every GPU call
GpuIters(o) == IF o.iterations # 0 THEN o.iterations ELSE 10

\* main.c lines 232-279: the GPU kernel calls of run_gpu, in order
GpuKernelCalls(o, op, defaults) ==
    IF o.buffer_size # 0
    THEN <<Event(op, o.buffer_size, GpuIters(o))>>
    ELSE [j \in 1..Len(defaults) |-> Event(op, defaults[j], GpuIters(o))]

GpuCalls(o) ==
    (IF "latency" \in o.tests
     THEN GpuKernelCalls(o, "gpu_read_latency", DEFAULT_GPU_LAT_SIZES)
     ELSE << >>)
    \o (IF "bandwidth" \in o.tests
        THEN GpuKernelCalls(o, "gpu_read_bandwidth", DEFAULT_GPU_BW_SIZES)
             \o GpuKernelCalls(o, "gpu_write_bandwidth", DEFAULT_GPU_BW_SIZES)
        ELSE << >>)

\* main.c lines 213-282, 328-330: run_gpu.  It returns -1 when
\* membench_gpu_get_info fails, before any GPU kernel; otherwise it makes
\* the kernel calls and returns 0.  main turns a failure into rc = -1
\* unless rc is already set.
RunGpu ==
    /\ mpc = "gpu"
    /\ LET info_rc == membench_gpu_get_info   \* recorded in place of a count
           run_gpu == IF info_rc # 0 THEN 0 - 1 ELSE 0
       IN  /\ calls' = Append(calls, Event("gpu_get_info", 0, info_rc))
                       \o (IF info_rc # 0 THEN << >> ELSE GpuCalls(opts))
           /\ rc' = IF run_gpu # 0 /\ rc = 0 THEN 0 - 1 ELSE rc
    /\ mpc' = StageAfter(opts, StageIndex(mpc))
    /\ UNCHANGED <<opts, total_ram, init_rc, loop_i, exit_code>>
    /\ UNCHANGED <<kvars, ivars, dvars, gvars, avars, fvars, tvars, pvars, hvars, qvars>>

\* main.c lines 332-334: return rc
MainReturn ==
    /\ mpc = "return"
    /\ exit_code' = rc
    /\ mpc' = "exit"
    /\ UNCHANGED <<opts, total_ram, init_rc, calls, loop_i, rc>>
    /\ UNCHANGED <<kvars, ivars, dvars, gvars, avars, fvars, tvars, pvars, hvars, qvars>>

NextDriver ==
    \/ MainParse
    \/ MainTimerInit
    \/ MainWarmup
    \/ RunLatency
    \/ RunBandwidth
    \/ RunDetect
    \/ RunGpu
    \/ MainReturn

SpecDriver == InitDriver /\ [][NextDriver]_vars

(***************************************************************************)
(* SpecSizes: one call of generate_sizes, byte by byte.                    *)
(*                                                                         *)
(* sz is a double that starts at MIN_SIZE_KB = 1 and is multiplied by      *)
(* factor = 2^(1/4) once per step, so after k steps it is 2^(k/4) up to    *)
(* the rounding of k multiplications.  The model keeps k (gs_step).  The   *)
(* rounding is far below one byte, so it shows in (size_t)(sz * 1024.0)    *)
(* and in sz <= MAX_SIZE_KB only where 2^(k/4) is a whole number, at the   *)
(* whole octaves: there the build's arithmetic decides whether sz lies     *)
(* below, on or above the power of two.  The model draws that sign when sz *)
(* first reaches the octave and keeps it (gs_err), because the fill loop   *)
(* repeats the count loop's multiplications and gets the same doubles.     *)
(* On x86-64 with glibc every octave after the first comes out below:      *)
(* 1024 1217 1448 1722 2047 2435 2896 3444 4095 ...                        *)
(* The model's MAX_SIZE_KB is 2^MaxOctaves KB.                             *)
(***************************************************************************)
\* 2^(r/4) for r = 1, 2, 3, in millionths, rounded down
QUARTER_ROOTS == <<1189207, 1414213, 1681792>>

\* the signs of a rounding error
ErrSigns == {0 - 1, 0, 1}

\* the sign kept for step k; sz = 1 before the first multiplication is exact
ErrAt(err, k) ==
    IF k % STEPS_PER_OCTAVE = 0 /\ k > 0 THEN err[k \div STEPS_PER_OCTAVE]
    ELSE 0

\* line 73: (size_t)(sz * 1024.0) for sz = 2^(k/4) with error sign e
SizeBytes(k, e) ==
    LET pw == 2^(MIN_SIZE_LOG2 + (k \div STEPS_PER_OCTAVE))
        r == k % STEPS_PER_OCTAVE
    IN  IF r = 0
        THEN IF e < 0 THEN pw - 1 ELSE pw
        ELSE LET q == QUARTER_ROOTS[r]
             IN  (pw * (q \div 1000) + ((pw * (q % 1000)) \div 1000)) \div 1000

\* line 60: sz <= MAX_SIZE_KB
WithinMax(k, e) ==
    \/ k < STEPS_PER_OCTAVE * MaxOctaves
    \/ k = STEPS_PER_OCTAVE * MaxOctaves /\ e <= 0

\* line 75: the sizes the fill loop stores
Keep_IfEqual(bytes, prev) == bytes = prev

Keep(bytes, prev) == bytes # prev

\* lines 62 and 74: sz *= factor; a newly reached octave gets its sign
Multiply(e) ==
    /\ gs_step' = gs_step + 1
    /\ IF (gs_step + 1) % STEPS_PER_OCTAVE = 0
          /\ (gs_step + 1) \div STEPS_PER_OCTAVE > Len(gs_err)
       THEN gs_err' = Append(gs_err, e)
       ELSE UNCHANGED gs_err

InitSizes ==
    /\ KIdle
    /\ IIdle
    /\ HIdle
    /\ QIdle
    /\ DIdle
    /\ AIdle
    /\ FIdle
    /\ TIdle
    /\ PIdle
    /\ MIdle
    /\ gpc = "count"
    /\ gs_step = 0
    /\ gs_err = << >>
    /\ gs_count = 0
    /\ gs_i = 0
    /\ gs_prev = 0
    /\ out_sizes = << >>
    /\ gs_ret = NoRet

\* lines 60-63: one turn of the counting loop
GenCount ==
    /\ gpc = "count"
    /\ WithinMax(gs_step, ErrAt(gs_err, gs_step))
    /\ gs_count' = gs_count + 1
    /\ \E e \in ErrSigns : Multiply(e)
    /\ UNCHANGED <<gpc, gs_i, gs_prev, out_sizes, gs_ret>>
    /\ UNCHANGED <<kvars, ivars, dvars, avars, fvars, tvars, pvars,
                   mvars, hvars, qvars>>

\* lines 60, 65-70: the loop ends; malloc, which may fail, and the reset
GenAlloc ==
    /\ gpc = "count"
    /\ ~WithinMax(gs_step, ErrAt(gs_err, gs_step))
    /\ \E malloc_ok \in BOOLEAN :
        IF malloc_ok
        THEN /\ gs_step' = 0
             /\ gpc' = "fill"
             /\ UNCHANGED gs_ret
        ELSE /\ gs_ret' = 0
             /\ gpc' = "done"
             /\ UNCHANGED gs_step
    /\ UNCHANGED <<gs_err, gs_count, gs_i, gs_prev, out_sizes>>
    /\ UNCHANGED <<kvars, ivars, dvars, avars, fvars, tvars, pvars,
                   mvars, hvars, qvars>>

\* lines 71-77: one turn of the fill loop
GenFill ==
    /\ gpc = "fill"
    /\ gs_i < gs_count
    /\ LET bytes == SizeBytes(gs_step, ErrAt(gs_err, gs_step))
       IN  /\ \E e \in ErrSigns : Multiply(e)
           /\ IF Keep(bytes, gs_prev)
              THEN /\ gs_prev' = bytes
                   /\ out_sizes' = Append(out_sizes, bytes)
              ELSE UNCHANGED <<gs_prev, out_sizes>>
    /\ gs_i' = gs_i + 1
    /\ UNCHANGED <<gpc, gs_count, gs_ret>>
    /\ UNCHANGED <<kvars, ivars, dvars, avars, fvars, tvars, pvars,
                   mvars, hvars, qvars>>

\* lines 71, 78: return actual
GenReturn ==
    /\ gpc = "fill"
    /\ gs_i >= gs_count
    /\ gs_ret' = Len(out_sizes)
    /\ gpc' = "done"
    /\ UNCHANGED <<gs_step, gs_err, gs_count, gs_i, gs_prev, out_sizes>>
    /\ UNCHANGED <<kvars, ivars, dvars, avars, fvars, tvars, pvars,
                   mvars, hvars, qvars>>

NextSizes ==
    \/ GenCount
    \/ GenAlloc
    \/ GenFill
    \/ GenReturn

SpecSizes == InitSizes /\ [][NextSizes]_vars

(***************************************************************************)
(* SpecAlloc: one buffer from membench_alloc of src/core/alloc.c, the      *)
(* stores of its caller, and membench_free.  A pointer is "null",          *)
(* "map_failed" (mmap's MAP_FAILED) or "addr".                             *)
(***************************************************************************)
\* the largest request of the model, in bytes
MaxBytes == 3

AllocPlatforms == {"windows", "posix"}
AllocSizes == 0..MaxBytes

\* test_alloc.c line 47 stores 0xAB; 0 and 0xFF are the other bytes here
ByteValues == {0, 171, 255}

\* alloc.c lines 21-24: VirtualAlloc returns NULL on failure, mmap returns
\* MAP_FAILED
PlatformMap(os, ok) ==
    IF ok THEN "addr" ELSE IF os = "windows" THEN "null" ELSE "map_failed"

\* an anonymous private mapping, and committed pages of VirtualAlloc, read
\* as zero
FreshPages(size) == [i \in 1..size |-> 0]

\* alloc.c line 25: if (ptr == MAP_FAILED) ptr = NULL
MapResult_Unconverted(os, raw) == raw

MapResult(os, raw) ==
    IF os = "posix" /\ raw = "map_failed" THEN "null" ELSE raw

\* memset(ptr, c, size) over a whole buffer
memset(mem, c) == [i \in DOMAIN mem |-> c]

InitAlloc ==
    /\ KIdle
    /\ IIdle
    /\ DIdle
    /\ GIdle
    /\ AIdle
    /\ FIdle
    /\ TIdle
    /\ PIdle
    /\ MIdle
    /\ QIdle
    /\ hpc = "call"
    /\ heap_os \in AllocPlatforms
    /\ req_size \in AllocSizes
    /\ os_ok = TRUE
    /\ heap_ptr = "null"
    /\ heap = << >>
    /\ written = << >>
    /\ os_maps = 0

\* alloc.c lines 17-33: membench_alloc
AllocBuffer ==
    /\ hpc = "call"
    /\ \E ok \in BOOLEAN :
        IF req_size = 0
        THEN /\ ok
             /\ heap_ptr' = "null"
             /\ UNCHANGED <<os_ok, heap, written, os_maps>>
        ELSE LET ptr == MapResult(heap_os, PlatformMap(heap_os, ok))
             IN  /\ os_ok' = ok
                 /\ heap_ptr' = ptr
                 /\ os_maps' = IF ok THEN os_maps + 1 ELSE os_maps
                 /\ heap' = IF ptr # "null"
                            THEN memset(FreshPages(req_size), 0)
                            ELSE << >>
                 /\ written' = IF ptr # "null"
                               THEN [i \in 1..req_size |-> NoWrite]
                               ELSE << >>
    /\ hpc' = "live"
    /\ UNCHANGED <<heap_os, req_size>>
    /\ UNCHANGED <<kvars, ivars, dvars, gvars, avars, fvars, tvars, pvars,
                   mvars, qvars>>

\* test_alloc.c lines 47-48: the caller stores a byte in its buffer
StoreByte ==
    /\ hpc = "live"
    /\ heap_ptr = "addr"
    /\ \E i \in 1..req_size, b \in ByteValues :
        /\ heap' = [heap EXCEPT ![i] = b]
        /\ written' = [written EXCEPT ![i] = b]
    /\ UNCHANGED <<hpc, heap_os, req_size, os_ok, heap_ptr, os_maps>>
    /\ UNCHANGED <<kvars, ivars, dvars, gvars, avars, fvars, tvars, pvars,
                   mvars, qvars>>

\* alloc.c lines 35-44: membench_free(ptr, size); nothing for a null ptr
FreeBuffer ==
    /\ hpc = "live"
    /\ IF heap_ptr = "null"
       THEN UNCHANGED <<heap, written, os_maps>>
       ELSE /\ os_maps' = os_maps - 1
            /\ heap' = << >>
            /\ written' = << >>
    /\ hpc' = "freed"
    /\ UNCHANGED <<heap_os, req_size, os_ok, heap_ptr>>
    /\ UNCHANGED <<kvars, ivars, dvars, gvars, avars, fvars, tvars, pvars,
                   mvars, qvars>>

NextAlloc ==
    \/ AllocBuffer
    \/ StoreByte
    \/ FreeBuffer

SpecAlloc == InitAlloc /\ [][NextAlloc]_vars

(***************************************************************************)
(* SpecPeaks: steps 6 and 7 of detect_boundaries on every list of peaks    *)
(* of the model: up to MaxPeaks peaks in ascending index, which step 5     *)
(* (FindPeaks) produces, with magnitudes above MIN_PEAK_HEIGHT.  The       *)
(* positions allow clusters within MERGE_DISTANCE and four peaks apart     *)
(* from each other.                                                        *)
(***************************************************************************)
\* the longest list of the model
MaxPeaks == 4

PeakPositions == {1, 2, 3, 4, 8, 9, 15, 22}
PeakMagnitudes == {<<2, 10>>, <<3, 10>>, <<5, 10>>}

\* the entries step 5 writes for the positions ps (ascending) with the
\* magnitudes mg
PeakList(ps, mg) ==
    LET Nth(k) == CHOOSE x \in ps : Cardinality({y \in ps : y < x}) = k - 1
    IN  [k \in 1..Cardinality(ps) |->
            [pos |-> Nth(k), mag |-> mg[Nth(k)], alive |-> TRUE]]

InitPeaks ==
    /\ KIdle
    /\ IIdle
    /\ DIdle
    /\ GIdle
    /\ AIdle
    /\ FIdle
    /\ TIdle
    /\ PIdle
    /\ MIdle
    /\ HIdle
    /\ qpc = "merge"
    /\ \E ps \in SUBSET PeakPositions :
        /\ Cardinality(ps) <= MaxPeaks
        /\ \E mg \in [ps -> PeakMagnitudes] : q_detected = PeakList(ps, mg)
    /\ q_i = 1
    /\ q_prev = q_detected
    /\ q_marked = q_detected
    /\ q_merged = << >>
    /\ q_top = << >>

\* cache_detect.c lines 211-224: one pass of the outer merge loop
MergePass ==
    /\ qpc = "merge"
    /\ q_i <= Len(q_marked)
    /\ q_prev' = q_marked
    /\ q_marked' = IF q_marked[q_i].alive
                   THEN MergeInner(q_marked, q_i, q_i + 1)
                   ELSE q_marked
    /\ q_i' = q_i + 1
    /\ UNCHANGED <<qpc, q_detected, q_merged, q_top>>
    /\ UNCHANGED <<kvars, ivars, dvars, gvars, avars, fvars, tvars, pvars,
                   mvars, hvars>>

\* cache_detect.c lines 225-234: the end of the merge loops and the
\* compaction
Compact ==
    /\ qpc = "merge"
    /\ q_i > Len(q_marked)
    /\ q_merged' = SelectSeq(q_marked, LAMBDA e : e.alive)
    /\ qpc' = "select"
    /\ UNCHANGED <<q_detected, q_i, q_prev, q_marked, q_top>>
    /\ UNCHANGED <<kvars, ivars, dvars, gvars, avars, fvars, tvars, pvars,
                   mvars, hvars>>

\* cache_detect.c lines 236-251: step 7
SelectPeaks ==
    /\ qpc = "select"
    /\ q_top' = SelectTop(q_merged)
    /\ qpc' = "done"
    /\ UNCHANGED <<q_detected, q_i, q_prev, q_marked, q_merged>>
    /\ UNCHANGED <<kvars, ivars, dvars, gvars, avars, fvars, tvars, pvars,
                   mvars, hvars>>

NextPeaks ==
    \/ MergePass
    \/ Compact
    \/ SelectPeaks

SpecPeaks == InitPeaks /\ [][NextPeaks]_vars

(***************************************************************************)
(* Claims about the kernels (specification Spec).                          *)
(***************************************************************************)

\* the smallest size a kernel accepts
MinSize(k) == IF IsLatency(k) THEN CACHE_LINE_BYTES_DEFAULT ELSE WORD_BYTES

\* the next-pointers of b form one cycle through all n nodes, from node 0
IsHamiltonianCycle(b, n) ==
    /\ Follow(b, 0, n) = 0
    /\ Cardinality(Visited(b, n)) = n

\* C1: once build_pointer_chase_cl has run on the zeroed buffer of N >= 2
\* nodes, following next from node 0 exactly N times returns to node 0 and
\* the N nodes visited are pairwise distinct.
C1_ChaseIsHamiltonianCycle ==
    (IsLatency(kernel) /\ pc = "warmup") => IsHamiltonianCycle(buf, node_count)

\* (supporting) the same, for the runs in which the builder's index array
\* was allocated
ChaseIsCycleWhenIndexAllocated ==
    (IsLatency(kernel) /\ pc \in {"warmup", "timed", "free"} /\ ~idx_failed)
        => IsHamiltonianCycle(buf, node_count)

\* C2: all builds of the same node count N, in whatever kernel call and after
\* whatever earlier use of the generator, produce the same next-edges.
C2_ChaseDeterministic ==
    \A n \in DOMAIN builds : Cardinality(builds[n]) <= 1

\* a chase of more than two nodes has been built a second time
C2_Witness == rebuilt

\* C3: a kernel called with a null result pointer or a size below its minimum
\* returns -1 without having called the allocator and without having written
\* the result.
C3_InvalidArgumentFailsEarly ==
    (pc = "done" /\ (~result.ptr \/ buffer_size < MinSize(kernel)))
        => /\ ret = 0 - 1
           /\ alloc_calls = 0
           /\ allocs = << >>
           /\ ~result.written

\* a bandwidth kernel has returned on a non-zero size below one word, with a
\* result structure to write to
C3_Witness ==
    /\ pc = "done"
    /\ kernel = "write_bandwidth"
    /\ result.ptr
    /\ buffer_size > 0
    /\ buffer_size < WORD_BYTES

C5_AllocationFailureReported ==
    /\ pc # "fault"
    /\ (IsLatency(kernel) /\ idx_failed) => pc \in {"warmup", "done"}
    /\ (IsLatency(kernel) /\ pc = "done" /\ (idx_failed \/ cause = "oom"))
           => (ret = 0 - 1 /\ allocs = frees)

\* C6: when a kernel returns, on whatever path, every buffer membench_alloc
\* handed out during the call has been passed to membench_free, with the byte
\* size it was allocated with.
C6_NoBufferOutlivesCall ==
    (pc = "done") => (frees = allocs /\ Len(allocs) <= 1)

\* a latency kernel has returned success for a one-line buffer (two nodes are
\* allocated, more than the size asked for) with zero iterations
C6_Witness ==
    /\ pc = "done"
    /\ ret = 0
    /\ IsLatency(kernel)
    /\ iterations = 0
    /\ buffer_size = CACHE_LINE_BYTES_DEFAULT
    /\ Len(allocs) = 1
    /\ allocs[1] > buffer_size
(***************************************************************************)
(* Claims about membench_cpu_detect_cache (specification SpecDetect)       *)
(***************************************************************************)
Range(seq) == {seq[k] : k \in 1..Len(seq)}

NoneDetected(inf) ==
    inf.l1_size_bytes = 0 /\ inf.l2_size_bytes = 0 /\ inf.l3_size_bytes = 0

\* C7: detect_cache never fails fatally: given an info structure, whatever
\* its allocations and the per-size measurements do, the call does not crash
\* and returns success (0), with l1, l2 and l3 zero when no boundary was
\* detected.
C7_DetectNeverFails ==
    /\ dpc # "fault"
    /\ (dpc = "done" /\ info_arg) =>
          /\ dret = 0
          /\ (peaks = << >> => NoneDetected(info))

\* C8: a failure return of the kernel at sample i stores exactly -1.0 in
\* latencies[i] and the sweep goes on with sample i + 1; once the sweep is
\* over every index below num holds -1.0 or the average latency measured for
\* that size, in the order of sizes.
C8_SweepRecordsFailures ==
    lats_held =>
        /\ dpc = "sweep" => sweep_i = Len(outcomes)
        /\ dpc \in {"infer", "done"} => Len(outcomes) = num
        /\ \A i \in 0..(Len(outcomes) - 1) :
              /\ outcomes[i + 1].rc # 0 => latencies[i] = SENTINEL
              /\ outcomes[i + 1].rc = 0 =>
                    /\ latencies[i] = outcomes[i + 1].avg
                    /\ latencies[i] = machine[OctaveOf(i)]

\* a sweep that ended after a failed sample followed by a measured one
C8_Witness ==
    /\ dpc = "done"
    /\ dret = 0
    /\ \E i \in 0..(num - 2) :
          /\ outcomes[i + 1].rc # 0
          /\ latencies[i] = SENTINEL
          /\ outcomes[i + 2].rc = 0
          /\ latencies[i + 1] > 0

(***************************************************************************)
(* Claims about detect_boundaries (specification SpecInfer)                *)
(***************************************************************************)
\* C9: a sample whose latency is the sentinel takes no part in the inference:
\* it is in no lower or upper plateau set (whose medians are the operands of
\* the threshold) and is no operand of the log-interpolation.
C9_SentinelExcluded ==
    \A k \in 1..Len(trans) :
        /\ \A i \in Range(trans[k].lo_idx) \cup Range(trans[k].up_idx) :
              latencies[i] # SENTINEL
        /\ trans[k].interp =>
              /\ latencies[trans[k].ci - 1] # SENTINEL
              /\ latencies[trans[k].ci] # SENTINEL

\* C10: when the inferrer has set l1, l2 and l3 all non-zero, l1 <= l2 <= l3;
\* stated here for the inputs without a failed sample.
C10_CapacitiesOrdered ==
    (/\ ipc = "done"
     /\ \A i \in DOMAIN latencies : latencies[i] # SENTINEL
     /\ info.l1_size_bytes > 0
     /\ info.l2_size_bytes > 0
     /\ info.l3_size_bytes > 0)
    => /\ info.l1_size_bytes <= info.l2_size_bytes
       /\ info.l2_size_bytes <= info.l3_size_bytes

\* the capacities the inferrer has set
Capacities(inf) == {inf.l1_size_bytes, inf.l2_size_bytes, inf.l3_size_bytes}

\* C11: every non-zero capacity lies within the sweep, sizes[0] <= Lk <=
\* sizes[n-1], and an interpolated boundary lies between sizes[ci-1] and
\* sizes[ci].
C11_CapacityWithinSweep ==
    ipc = "done" =>
        /\ \A c \in Capacities(info) :
              c # 0 => /\ PosOfSample(sizes, 0) <= c
                       /\ c <= PosOfSample(sizes, num - 1)
        /\ \A k \in 1..Len(trans) :
              (~trans[k].skipped /\ trans[k].interp) =>
                  /\ PosOfSample(sizes, trans[k].ci - 1) <= trans[k].boundary
                  /\ trans[k].boundary <= PosOfSample(sizes, trans[k].ci)

\* the capacity of level k = 1, 2, 3
Level(inf, k) ==
    IF k = 1 THEN inf.l1_size_bytes
    ELSE IF k = 2 THEN inf.l2_size_bytes
    ELSE inf.l3_size_bytes

\* the inferrer stands at one of its steps, with no more transitions done
\* than peaks selected
AtAStep ==
    \/ ipc \in {"entry", "smooth", "deriv", "sderiv", "peaks", "merge", "select"}
    \/ ipc = "boundary" /\ Len(trans) <= Len(peaks) /\ Len(peaks) <= 3

\* C12: the inferrer never raises: it is at one of its steps until it has
\* returned; and when it has selected k < 3 transitions the capacities of
\* the levels k+1..3 are zero (all three with no peak).
C12_UnselectedLevelsZero ==
    /\ ipc \notin {"idle", "done"} => AtAStep
    /\ ipc = "done" =>
          \A k \in 1..3 : k > Len(peaks) => Level(info, k) = 0

\* a run that selected one transition and set l1 from it
C12_Witness ==
    /\ ipc = "done"
    /\ Len(peaks) = 1
    /\ info.l1_size_bytes > 0
    /\ info.l2_size_bytes = 0
    /\ info.l3_size_bytes = 0

(***************************************************************************)
(* Claims about generate_sizes (specification SpecSizes)                   *)
(***************************************************************************)

\* C13: the sizes generate_sizes returns are strictly increasing, so no byte
\* count occurs twice, and the first of them is 1024 bytes (a call whose
\* malloc failed returns before the fill loop, with i still 0)
C13_SizesStrictlyIncreasing ==
    (gpc = "done" /\ gs_i = gs_count) =>
        /\ gs_ret = Len(out_sizes)
        /\ Len(out_sizes) >= 1
        /\ out_sizes[1] = 1024
        /\ \A a \in 1..(Len(out_sizes) - 1) : out_sizes[a] < out_sizes[a + 1]
        /\ \A a, b \in 1..Len(out_sizes) :
              a # b => out_sizes[a] # out_sizes[b]

\* a returned sweep that holds a size one byte short of a power of two
C13_Witness ==
    /\ gpc = "done"
    /\ gs_ret = STEPS_PER_OCTAVE * MaxOctaves + 1
    /\ out_sizes[1] = 1024
    /\ out_sizes[STEPS_PER_OCTAVE + 1] = 2047
    /\ out_sizes[STEPS_PER_OCTAVE + 2] = 2435

(***************************************************************************)
(* Claims about the affinity around the sweep (specification SpecPin)      *)
(***************************************************************************)

\* C14: whenever detect_cache has returned, the thread's affinity / QoS class
\* is what it was on entry; no sweep measurement is made before the pin or
\* after the restore
C14_AffinityRestored ==
    /\ dpc = "done" => affinity = entry_affinity
    /\ dpc \in {"entry", "alloc", "pin"} => outcomes = << >>
    /\ (dpc = "sweep" /\ Len(outcomes) < num) => pinned
    /\ dpc \in {"infer", "done"} => ~pinned

(***************************************************************************)
(* Claims about the kernels' timed region (specification Spec)             *)
(***************************************************************************)

\* the position of the one event ev in tl
IndexOf(tl, ev) == CHOOSE a \in 1..Len(tl) : tl[a] = ev

\* C15: in every kernel that has run its timed region, a memory fence is
\* executed just before the starting timestamp is read, and another after
\* the timed accesses and just before the ending timestamp is read
C15_TimedRegionFenced ==
    timeline # << >> =>
        LET start == IndexOf(timeline, "start")
            loop == IndexOf(timeline, "loop")
            end == IndexOf(timeline, "end")
        IN  /\ start > 1
            /\ timeline[start - 1] = "fence"
            /\ start < loop
            /\ loop < end - 1
            /\ timeline[end - 1] = "fence"

(***************************************************************************)
(* Claims about the timer (specification SpecTimer)                        *)
(***************************************************************************)

\* the double sec * 10^9 + num / den lies in (0, 1000]
InTestRange(r) ==
    /\ r.sec = U64(0)
    /\ r.num > 0
    /\ (r.num + 999) \div 1000 <= r.den

\* C16: after a successful init every resolution read is above 0 and at most
\* 1000 ns, and is the same at every clock reading
C16_ResolutionBounded ==
    /\ \A r \in resolutions : InTestRange(r)
    /\ Cardinality(resolutions) <= 1

\* C17: after a successful init, of two successive timestamps the second is
\* not below the first as a 64-bit unsigned number, and is above it when the
\* clock advanced between the two reads
C17_TimestampsMonotonic ==
    reads = 2 =>
        /\ ~LessU64(t2, t1)
        /\ advanced => LessU64(t1, t2)

(***************************************************************************)
(* Claims about the iteration planners (specification SpecPlan)            *)
(***************************************************************************)

\* the table of the planner: the bytes of one element, the target number of
\* element visits and the minimum, by kind
ElementBytes(kind, line) == IF kind = "bandwidth" THEN 8 ELSE line
TargetVisits(kind) ==
    IF kind = "latency" THEN 20000000
    ELSE IF kind = "bandwidth" THEN 5000000 ELSE 100000000
MinimumIters(kind) == IF kind = "sweep" THEN 4 ELSE 2

\* C19: the planner returns max(min_iters, target / elems) with
\* elems = max(1, buffer_size / element bytes), the element being a cache
\* line for latency and the sweep and 8 bytes for bandwidth; the result is
\* never below the minimum
C19_PlannerFormula ==
    ppc = "done" =>
        LET width == ElementBytes(plan_kind, plan_line)
            bytes_div == IF plan_unit = 1 THEN plan_size \div width
                         ELSE plan_size * (1024 \div width)
            elems == Max(1, bytes_div)
        IN  /\ plan_iters = Max(MinimumIters(plan_kind),
                                TargetVisits(plan_kind) \div elems)
            /\ plan_iters >= MinimumIters(plan_kind)

\* the planner was asked for a bandwidth buffer so large that the quotient
\* is 0, and returned the minimum
C19_Witness ==
    /\ ppc = "done"
    /\ plan_kind = "bandwidth"
    /\ plan_unit = 1024
    /\ plan_iters = 2

(***************************************************************************)
(* Claims about main (specification SpecDriver)                            *)
(***************************************************************************)

\* the positions of the warmup in calls
Warmups == {j \in 1..Len(calls) : calls[j].op = "warmup"}
\* the positions of the kernel calls in calls
Measurements == {j \in 1..Len(calls) : calls[j].op \notin {"warmup", "report"}}

\* C18: the warmup and the kernels run only after membench_timer_init has
\* returned 0; when it fails main reports once and returns non-zero; when it
\* succeeds the warmup runs exactly once, before the first kernel call
C18_NothingRunsWithoutTimer ==
    /\ (Warmups \cup Measurements) # {} => init_rc = 0
    /\ init_rc \notin {0, NoRet} =>
          /\ mpc = "exit"
          /\ calls = <<Event("report", 0, 0)>>
          /\ exit_code \notin {0, NoRet}
    /\ Cardinality(Warmups) <= 1
    /\ (init_rc = 0 /\ mpc # "warmup") => Warmups = {1}
    /\ \A j \in Measurements : \E w \in Warmups : w < j

\* a run that initialised the timer, warmed up, measured and returned
C18_Witness ==
    /\ mpc = "exit"
    /\ init_rc = 0
    /\ exit_code = 0
    /\ Len(calls) > 2
    /\ calls[1].op = "warmup"
    /\ calls[2].op = "read_latency"

\* C20: where the RAM is known, no call of a bandwidth kernel has a buffer
\* size of half the reported RAM or more, whether the size is a default size
\* or the user's
C20_BandwidthBelowHalfRam ==
    total_ram > 0 =>
        \A j \in 1..Len(calls) :
            calls[j].op \in {"read_bandwidth", "write_bandwidth"} =>
                2 * calls[j].size < total_ram

\* the sizes main passed to the kernel op, in call order
SizesOf(op) ==
    LET made == SelectSeq(calls, LAMBDA ev : ev.op = op)
    IN  [j \in 1..Len(made) |-> made[j].size]

\* the default bandwidth sizes below the RAM limit, which the loops of
\* main.c lines 165-172 and 184-191 run through
BwSizesBelow(limit) ==
    LET stop == {j \in 1..Len(DEFAULT_BW_SIZES) : DEFAULT_BW_SIZES[j] >= limit}
        last == IF stop = {} THEN Len(DEFAULT_BW_SIZES)
                ELSE (CHOOSE j \in stop : \A j2 \in stop : j <= j2) - 1
    IN  SubSeq(DEFAULT_BW_SIZES, 1, last)

\* a CPU section has made all of its calls
SectionComplete(stage) ==
    IF stage = "detect" THEN SizesOf(stage) = <<0>>
    ELSE IF opts.buffer_size # 0 THEN SizesOf(stage) = <<opts.buffer_size>>
    ELSE IF stage \in {"read_latency", "write_latency"}
    THEN SizesOf(stage) = DEFAULT_LATENCY_SIZES
    ELSE SizesOf(stage) = BwSizesBelow(RamLimit(total_ram))

CpuStages ==
    {"read_latency", "write_latency", "read_bandwidth", "write_bandwidth",
     "detect"}
GpuKernelOps ==
    {"gpu_read_latency", "gpu_read_bandwidth", "gpu_write_bandwidth"}

\* C21: in the stub build membench_gpu_get_info returns its error, main
\* makes no GPU latency or bandwidth call, and when run_gpu is reached, and
\* after it has returned, every CPU section the options select has made
\* all of its calls; a run for the GPU or for all targets that returns has
\* asked for the GPU information exactly once
C21_GpuSkippedCpuComplete ==
    /\ \A j \in 1..Len(calls) :
          /\ calls[j].op \notin GpuKernelOps
          /\ calls[j].op = "gpu_get_info" => calls[j].iters # 0
    /\ mpc \in {"gpu", "return"} \/ (mpc = "exit" /\ exit_code = rc /\ init_rc = 0) =>
          /\ \A stage \in CpuStages :
                SizesOf(stage) # << >> \/ Selected(opts, stage) =>
                    Selected(opts, stage) /\ SectionComplete(stage)
          /\ mpc # "gpu" =>
                Len(SizesOf("gpu_get_info")) =
                    IF Selected(opts, "gpu") THEN 1 ELSE 0

\* a run for all targets whose CPU kernels all succeeded and whose exit code
\* is the GPU's failure
C21_Witness ==
    /\ mpc = "exit"
    /\ opts.target = "all"
    /\ opts.buffer_size = 0
    /\ "latency" \in opts.tests
    /\ "bandwidth" \in opts.tests
    /\ Len(SizesOf("gpu_get_info")) = 1
    /\ SizesOf("write_bandwidth") = BwSizesBelow(RamLimit(total_ram))
    /\ Len(SizesOf("write_bandwidth")) > 1
    /\ exit_code = 0 - 1

(***************************************************************************)
(* Claims about the allocator (specification SpecAlloc)                    *)
(***************************************************************************)
\* C22: while the caller holds the result of membench_alloc: a request of 0
\* bytes got NULL and no mapping was made; a failed platform call got NULL;
\* a non-null result is a buffer of the requested size in which every byte
\* reads as zero until the caller stores to it, and then as the byte last
\* stored there
C22_ZeroInitAndReadBack ==
    hpc = "live" =>
        /\ req_size = 0 => heap_ptr = "null" /\ os_maps = 0
        /\ ~os_ok => heap_ptr = "null" /\ os_maps = 0
        /\ (req_size > 0 /\ os_ok) => heap_ptr = "addr" /\ os_maps = 1
        /\ heap_ptr # "null" =>
              /\ DOMAIN heap = 1..req_size
              /\ \A i \in 1..req_size :
                    heap[i] = IF written[i] = NoWrite THEN 0 ELSE written[i]

\* a buffer with one byte stored and another still as allocated
C22_Witness ==
    /\ hpc = "live"
    /\ heap_ptr = "addr"
    /\ req_size >= 2
    /\ written[1] = 171
    /\ heap[1] = 171
    /\ written[2] = NoWrite
    /\ heap[2] = 0

(***************************************************************************)
(* Further claims about the kernels (specification Spec)                   *)
(***************************************************************************)
\* C23: when a latency kernel has made its timed passes, the chase has
\* exactly buffer_size / cache_line_size nodes, that is at least 2, the
\* buffer is no larger than buffer_size bytes, the reported accesses are
\* iterations * N, and a pass of N hops over a built chase stands on every
\* one of the N nodes
C23_ExactNodeCount ==
    (IsLatency(kernel) /\ pc = "free") =>
        /\ node_count = buffer_size \div membench_get_cache_line_size
        /\ node_count >= 2
        /\ alloc_bytes <= buffer_size
        /\ result.accesses = iterations * node_count
        /\ ~idx_failed => Visited(buf, node_count) = 0..(node_count - 1)

(***************************************************************************)
(* Claims about the peaks of detect_boundaries (specification SpecPeaks)   *)
(***************************************************************************)
\* the peaks the latest pass of the outer merge loop removed
RemovedNow == {k \in 1..Len(q_marked) : q_prev[k].alive /\ ~q_marked[k].alive}

\* two entries are within the merge distance of each other
Near(x, y) ==
    x.pos - y.pos <= MERGE_DISTANCE /\ y.pos - x.pos <= MERGE_DISTANCE

\* C24: a peak that a pass of the outer merge loop removes is either a later
\* peak within 5 indices of the pass's own peak i, which is alive during the
\* pass and has at least its magnitude, or it is peak i itself, and then a
\* peak within 5 indices that is still alive after the pass has at least
\* its magnitude; after the merge any two surviving peaks are more than 5
\* indices apart, and the compacted list is the survivors in their order,
\* which is what MergePeaks computes
C24_ProximityMerge ==
    /\ qpc = "merge" /\ q_i > 1 =>
          \A r \in RemovedNow :
              IF r = q_i - 1
              THEN \E k \in 1..Len(q_marked) :
                      /\ q_marked[k].alive
                      /\ Near(q_marked[k], q_marked[r])
                      /\ RLeq(q_marked[r].mag, q_marked[k].mag)
              ELSE /\ q_prev[q_i - 1].alive
                   /\ r > q_i - 1
                   /\ Near(q_marked[q_i - 1], q_marked[r])
                   /\ RLeq(q_marked[r].mag, q_marked[q_i - 1].mag)
    /\ qpc \in {"select", "done"} =>
          /\ q_merged = MergePeaks(q_detected)
          /\ \A a, b \in 1..Len(q_merged) :
                a < b => q_merged[b].pos - q_merged[a].pos > MERGE_DISTANCE
          /\ \A a \in 1..Len(q_merged) :
                \E k \in 1..Len(q_detected) :
                    q_detected[k] = q_merged[a] /\ q_marked[k].alive

\* a merge that removed the first peak in favour of a taller neighbour and
\* kept a second peak further on
C24_Witness ==
    /\ qpc = "select"
    /\ Len(q_detected) = 3
    /\ Len(q_merged) = 2
    /\ ~q_marked[1].alive
    /\ q_marked[2].alive
    /\ q_marked[2].pos - q_marked[1].pos <= MERGE_DISTANCE

\* the info structure as detect_boundaries leaves it at line 138
ZeroInfo ==
    [UnsetInfo EXCEPT !.l1_size_bytes = 0, !.l2_size_bytes = 0,
                      !.l3_size_bytes = 0]

\* C25: after step 7 the selected entries are min(3, merged) entries of the
\* merged list, in strictly ascending sample index; no merged peak left out
\* has a larger magnitude than a selected one; and the switch at the end of
\* step 8 stores the boundary of the selected entry t = 0, 1, 2 in l1, l2, l3
\* and in no other level
C25_TopThreeAscending ==
    qpc = "done" =>
        /\ Len(q_top) = IF Len(q_merged) > 3 THEN 3 ELSE Len(q_merged)
        /\ \A t \in 1..Len(q_top) :
              \E k \in 1..Len(q_merged) : q_merged[k] = q_top[t]
        /\ \A t, u \in 1..Len(q_top) : t < u => q_top[t].pos < q_top[u].pos
        /\ \A k \in 1..Len(q_merged) :
              (\A t \in 1..Len(q_top) : q_top[t] # q_merged[k]) =>
                  \A t \in 1..Len(q_top) :
                      RLeq(q_merged[k].mag, q_top[t].mag)
        /\ \A t \in 0..(Len(q_top) - 1), k \in 1..3 :
              Level(SetLevel(ZeroInfo, t, q_top[t + 1].pos), k) =
                  IF k = t + 1 THEN q_top[t + 1].pos ELSE 0

\* four merged peaks of which the first, the smallest, is left out, and the
\* tallest of the selected three is the last in index
C25_Witness ==
    /\ qpc = "done"
    /\ Len(q_merged) = 4
    /\ Len(q_top) = 3
    /\ q_top[1] = q_merged[2]
    /\ RLess(q_merged[1].mag, q_top[1].mag)
    /\ RLess(q_top[1].mag, q_top[3].mag)

(***************************************************************************)
(* Further claims about detect_boundaries (specification SpecDetect)       *)
(***************************************************************************)
\* the indices of transition r's range whose raw latency reaches its
\* threshold
Reaching(r) ==
    {i \in r.lo_start..(r.up_end - 1) : AtLeast(latencies[i], r.thr)}

\* C26: for every transition with both plateau sets non-empty, ci is the
\* first index of [lo_start, up_end) whose latency is >= the threshold, and
\* the peak index when there is none, in which case the boundary is the size
\* at the peak; when ci > 0 and latencies[ci-1] < threshold <= latencies[ci]
\* the boundary is the log-interpolation between sizes[ci-1] and sizes[ci]
\* at the threshold's place between the two latencies, and otherwise it is
\* sizes[ci]
C26_CrossingAndBoundary ==
    \A k \in 1..Len(trans) :
        LET r == trans[k]
        IN  ~r.skipped =>
            /\ Reaching(r) # {} =>
                  /\ r.ci \in Reaching(r)
                  /\ \A i \in Reaching(r) : r.ci <= i
            /\ Reaching(r) = {} =>
                  /\ r.ci = r.pk
                  /\ r.boundary = PosOfSample(sizes, r.pk)
            /\ IF /\ r.ci > 0
                  /\ Below(latencies[r.ci - 1], r.thr)
                  /\ AtLeast(latencies[r.ci], r.thr)
               THEN /\ latencies[r.ci - 1] > 0
                    /\ r.boundary =
                          PosOfSample(sizes, r.ci - 1)
                          + InterpSteps(r.thr, latencies[r.ci - 1],
                                        latencies[r.ci])
                            * (sizes[r.ci] - sizes[r.ci - 1])
                    /\ PosOfSample(sizes, r.ci - 1) <= r.boundary
                    /\ r.boundary <= PosOfSample(sizes, r.ci)
               ELSE r.boundary = PosOfSample(sizes, r.ci)

(***************************************************************************)
(* Claims about the write-latency kernel (specification Spec)              *)
(***************************************************************************)
\* the chase the builder writes into a zeroed buffer of n nodes
BuiltChase(n) ==
    build_pointer_chase_cl([k \in 0..(n - 1) |-> NULLP], n, Srand(SEED, libc),
                            TRUE).buf

\* C27: in the write-latency kernel, after the warmup and after the timed
\* passes, every next pointer is as the builder wrote it, the chase is one
\* cycle through all N nodes and the pointer is back at node 0; the warmup
\* has stored to the scratch word of every node exactly once (each reads 1),
\* and a pass faults only when the chase was never built
C27_WritesLeaveChaseIntact ==
    kernel = "write_latency" =>
        /\ pc \in {"timed", "free"} =>
              /\ ~idx_failed
              /\ buf = BuiltChase(node_count)
              /\ IsHamiltonianCycle(buf, node_count)
              /\ p = 0
              /\ DOMAIN scratch = 0..(node_count - 1)
        /\ pc = "timed" => \A q \in DOMAIN scratch : scratch[q] = 1
        /\ (pc = "free" /\ iterations > 0) =>
              \A q \in DOMAIN scratch :
                  \E i \in 0..(node_count - 1) :
                      scratch[q] = (iterations - 1) + i
        /\ pc = "fault" => idx_failed

\* two timed passes of the write kernel over three nodes or more
C27_Witness ==
    /\ kernel = "write_latency"
    /\ pc = "free"
    /\ iterations >= 2
    /\ node_count >= 3
    /\ p = 0
    /\ buf = BuiltChase(node_count)
    /\ \E q \in DOMAIN scratch : scratch[q] > 1

(***************************************************************************)
(* Claims about membench_cache_info_free (specification SpecDetect)        *)
(***************************************************************************)
\* C28: every call of membench_cache_info_free leaves l1, l2 and l3 as they
\* were; the first call on the info of a successful detect_cache finds both
\* arrays allocated, releases both, and leaves both pointers null and
\* num_samples 0; a second call, and a call on a null info, releases nothing,
\* changes nothing and does not fault
C28_DisposeOnce ==
    [][DisposeInfo =>
        /\ info'.l1_size_bytes = info.l1_size_bytes
        /\ info'.l2_size_bytes = info.l2_size_bytes
        /\ info'.l3_size_bytes = info.l3_size_bytes
        /\ dpc' # "fault"
        /\ (info_arg /\ dpc = "done") =>
              /\ sizes_held /\ lats_held
              /\ info.sample_sizes /\ info.sample_latencies
              /\ info.num_samples = num
              /\ ~sizes_held' /\ ~lats_held'
              /\ ~info'.sample_sizes /\ ~info'.sample_latencies
              /\ info'.num_samples = 0
        /\ (~info_arg \/ dpc = "disposed") =>
              UNCHANGED <<info, sizes_held, lats_held>>]_vars

\* an info with a detected capacity, disposed of twice
C28_Witness ==
    /\ dpc = "disposed_twice"
    /\ info_arg
    /\ info.l1_size_bytes > 0
    /\ info.num_samples = 0
    /\ ~info.sample_sizes
    /\ ~sizes_held
    /\ ~lats_held

(***************************************************************************)
(* Claims about the returns of detect_cache (specification SpecDetect)     *)
(***************************************************************************)

\* detect_cache has returned to its caller
Returned(r) == dpc = "done" /\ dret = r

\* C29: when detect_cache has returned -1 (null info, or a failed
\* allocation of the sizes or of the latencies array) no sweep array is
\* allocated, the info structure is as the caller passed it, no measurement
\* has been made and the thread was never pinned, its affinity / QoS class
\* being what it was on entry; when it has returned 0 both arrays are
\* allocated, the info points to them, and both have num_samples elements
C29_ReturnsOwnNothingOrBoth ==
    /\ dpc = "done" => dret \in {0, 0 - 1}
    /\ Returned(0 - 1) =>
          /\ ~sizes_held
          /\ ~lats_held
          /\ info = UnsetInfo
          /\ outcomes = << >>
          /\ ~pinned
          /\ affinity = entry_affinity
          /\ ipc = "idle"
    /\ Returned(0) =>
          /\ info_arg
          /\ sizes_held
          /\ lats_held
          /\ info.sample_sizes
          /\ info.sample_latencies
          /\ info.num_samples = SweepCount
          /\ DOMAIN sizes = 0..(info.num_samples - 1)
          /\ DOMAIN latencies = 0..(info.num_samples - 1)

\* a failure return after the sizes array was allocated: the latencies
\* array could not be
C29_Witness ==
    /\ Returned(0 - 1)
    /\ info_arg
    /\ num = SweepCount
    /\ ~sizes_held

(***************************************************************************)
(* Claims about the inferrer's indices (specification SpecFullSweep)       *)
(***************************************************************************)

\* the indices of an array of n elements
Indices(n) == 0..(n - 1)

\* the indices at which step 5 finds a maximum, stored or not
Maxima == {i \in 1..(num - 2) : IsPeak(sderiv, i)}

\* the accesses of one pass of step 8 stay inside the arrays
PassInBounds(r) ==
    /\ r.pk \in 1..(num - 2)
    /\ r.lo_start \in Indices(num)
    /\ r.lo_start <= r.pk
    /\ r.pk < r.up_end
    /\ r.up_end <= num
    /\ Len(r.lo_idx) <= MAX_PLATEAU
    /\ Len(r.up_idx) <= MAX_PLATEAU
    /\ \A k \in 1..Len(r.lo_idx) : r.lo_idx[k] \in r.lo_start..(r.pk - 1)
    /\ \A k \in 1..Len(r.up_idx) : r.up_idx[k] \in (r.pk + 1)..(r.up_end - 1)
    /\ r.ci \in Indices(num)
    /\ r.interp => r.ci - 1 \in Indices(num)

\* C30: with at least 10 samples, step 5 stores at most 20 peaks, each at an
\* index in [1, n-2]; the arrays the steps fill have n elements; each plateau
\* set of step 8 holds at most 40 values taken from inside the arrays, and
\* pk, ci and (when the boundary is interpolated) ci-1 are in [0, n); with
\* fewer than 10 samples the inferrer returns the three capacities zero and
\* no step has run
C30_AccessesInBounds ==
    /\ num >= MIN_SAMPLES =>
          /\ Len(peaks) <= MAX_PEAKS
          /\ \A k \in 1..Len(peaks) : peaks[k].pos \in 1..(num - 2)
          /\ ipc \in {"boundary", "done"} => Len(peaks) <= 3
          /\ DOMAIN log_lat \in {{}, Indices(num)}
          /\ DOMAIN smooth \in {{}, Indices(num)}
          /\ DOMAIN deriv \in {{}, Indices(num)}
          /\ DOMAIN sderiv \in {{}, Indices(num)}
          /\ DOMAIN sizes = Indices(num)
          /\ DOMAIN latencies = Indices(num)
          /\ \A k \in 1..Len(trans) : PassInBounds(trans[k])
    /\ num < MIN_SAMPLES =>
          /\ ipc \in {"entry", "done"}
          /\ log_lat = << >> /\ smooth = << >> /\ deriv = << >>
          /\ sderiv = << >> /\ peaks = << >> /\ trans = << >>
          /\ ipc = "done" =>
                /\ info.l1_size_bytes = 0
                /\ info.l2_size_bytes = 0
                /\ info.l3_size_bytes = 0

\* a sweep with more than MAX_PEAKS maxima, of which step 5 stored the first
\* MAX_PEAKS, and more than MAX_PLATEAU flat samples below the first
\* selected peak, of which step 8 took MAX_PLATEAU
C30_Witness ==
    /\ ipc = "done"
    /\ num = FullSweepCount
    /\ Len(trans) > 0
    /\ Cardinality(Maxima) > MAX_PEAKS
    /\ Len(trans[1].lo_idx) = MAX_PLATEAU
    /\ trans[1].pk > MAX_PLATEAU + 1

====
